---------------------------- MODULE Spec2Model ----------------------------
(***************************************************************************)
(* Model of the trading bot's numeric core and its fund check:             *)
(*   - modules/alpaca_rsi.py   compute_rsi_from_closes (Wilder RSI)        *)
(*   - modules/alpaca_client.py  can_buy / get_wallet_amount               *)
(*                                                                         *)
(* The program computes with Python's decimal.Decimal.  A Decimal is       *)
(* modelled as a record [k, s, c, e]: kind, sign, coefficient (a sequence  *)
(* of decimal digits, most significant first) and exponent, and every      *)
(* arithmetic operation rounds its exact result half-even to the context   *)
(* precision, as the decimal module does.                                  *)
(***************************************************************************)
EXTENDS Integers, Sequences, FiniteSets, TLC

(***************************************************************************)
(* Natural numbers as digit sequences (most significant digit first, no    *)
(* leading zero, <<>> is 0): the coefficients of Decimal values exceed the *)
(* range of machine integers.                                              *)
(***************************************************************************)
Max2(a, b) == IF a >= b THEN a ELSE b

Min2(a, b) == IF a <= b THEN a ELSE b

Zeros(n) == [j \in 1..n |-> 0]

\* d without its leading zeros
Strip(d) ==
    LET nz == {j \in 1..Len(d) : d[j] # 0}
    IN  IF nz = {} THEN <<>>
        ELSE SubSeq(d, CHOOSE j \in nz : \A l \in nz : j <= l, Len(d))

\* the digit of weight 10^(k-1)
DigitR(a, k) == IF k <= Len(a) THEN a[Len(a) + 1 - k] ELSE 0

\* A number is added, subtracted and multiplied four digits at a time: its
\* limbs are its digits in groups of four, the least significant group first
Limb(l, i) == IF i <= Len(l) THEN l[i] ELSE 0

Pow10(t) == IF t = 0 THEN 1 ELSE IF t = 1 THEN 10 ELSE IF t = 2 THEN 100 ELSE 1000

ToLimbs(d) ==
    [i \in 1..((Len(d) + 3) \div 4) |->
        DigitR(d, 4 * i - 3) + 10 * DigitR(d, 4 * i - 2)
          + 100 * DigitR(d, 4 * i - 1) + 1000 * DigitR(d, 4 * i)]

FromLimbs(l) ==
    LET n == 4 * Len(l)
    IN  Strip([q \in 1..n |-> (l[((n - q) \div 4) + 1] \div Pow10((n - q) % 4)) % 10])

\* the limbs of a + b from limb i on, c the carry into limb i
RECURSIVE AddL(_, _, _, _)
AddL(a, b, i, c) ==
    IF i > Len(a) /\ i > Len(b)
    THEN (IF c = 0 THEN <<>> ELSE <<c>>)
    ELSE LET s == Limb(a, i) + Limb(b, i) + c
         IN  <<s % 10000>> \o AddL(a, b, i + 1, s \div 10000)

\* the limbs of a - b (a >= b) from limb i on, c the borrow from limb i
RECURSIVE SubL(_, _, _, _)
SubL(a, b, i, c) ==
    IF i > Len(a)
    THEN <<>>
    ELSE LET s == Limb(a, i) - Limb(b, i) - c
         IN  <<(s + 10000) % 10000>> \o SubL(a, b, i + 1, IF s < 0 THEN 1 ELSE 0)

\* the limbs of a * m for one limb m, from limb i on, c the carry into limb i
RECURSIVE MulLimb(_, _, _, _)
MulLimb(a, m, i, c) ==
    IF i > Len(a)
    THEN (IF c = 0 THEN <<>> ELSE <<c>>)
    ELSE LET s == a[i] * m + c
         IN  <<s % 10000>> \o MulLimb(a, m, i + 1, s \div 10000)

\* the limbs of a * (the limbs j.. of b)
RECURSIVE MulL(_, _, _)
MulL(a, b, j) ==
    IF j > Len(b)
    THEN <<>>
    ELSE AddL(MulLimb(a, b[j], 1, 0), <<0>> \o MulL(a, b, j + 1), 1, 0)

AddN(a, b) == FromLimbs(AddL(ToLimbs(a), ToLimbs(b), 1, 0))

\* a - b for a >= b
SubN(a, b) == FromLimbs(SubL(ToLimbs(a), ToLimbs(b), 1, 0))

\* -1, 0 or 1 as a < b, a = b or a > b (a and b without leading zeros)
CmpN(a, b) ==
    IF Len(a) # Len(b)
    THEN (IF Len(a) < Len(b) THEN -1 ELSE 1)
    ELSE LET D == {j \in 1..Len(a) : a[j] # b[j]}
         IN  IF D = {} THEN 0
             ELSE LET f == CHOOSE j \in D : \A l \in D : j <= l
                  IN  IF a[f] < b[f] THEN -1 ELSE 1

ShiftN(a, n) == IF a = <<>> THEN <<>> ELSE a \o Zeros(n)

MulN(a, b) == FromLimbs(MulL(ToLimbs(a), ToLimbs(b), 1))

RECURSIVE ToInt(_)
ToInt(d) == IF d = <<>> THEN 0 ELSE 10 * ToInt(SubSeq(d, 1, Len(d) - 1)) + d[Len(d)]

RECURSIVE NatDigits(_)
NatDigits(n) == IF n = 0 THEN <<>> ELSE Append(NatDigits(n \div 10), n % 10)

\* n < 10000 in four digits
FourDigits(n) == <<n \div 1000, (n \div 100) % 10, (n \div 10) % 10, n % 10>>

\* <<quotient, remainder>> of r1 by b, for r1 < 10000 * b: the quotient lies
\* between the bounds that the leading digits of r1 and b give
DivSmall(r1, b) ==
    IF CmpN(r1, b) < 0 THEN <<0, r1>>
    ELSE IF Len(b) <= 5
    THEN <<ToInt(r1) \div ToInt(b), NatDigits(ToInt(r1) % ToInt(b))>>
    ELSE LET btop == ToInt(SubSeq(b, 1, 5))
             rtop == ToInt(SubSeq(r1, 1, Len(r1) - (Len(b) - 5)))
             q    == CHOOSE x \in (rtop \div (btop + 1))..Min2(9999, (rtop + 1) \div btop) :
                        /\ CmpN(MulN(b, NatDigits(x)), r1) <= 0
                        /\ CmpN(MulN(b, NatDigits(x + 1)), r1) > 0
         IN  <<q, SubN(r1, MulN(b, NatDigits(q)))>>

\* long division, four digits of a at a time: <<quotient, remainder>> of the
\* number made of the first 4 * n digits of a, by b
RECURSIVE DivChunks(_, _, _)
DivChunks(a, b, n) ==
    IF n = 0
    THEN << <<>>, <<>> >>
    ELSE LET p == DivChunks(a, b, n - 1)
             s == DivSmall(Strip(p[2] \o SubSeq(a, 4 * n - 3, 4 * n)), b)
         IN  << p[1] \o FourDigits(s[1]), s[2] >>

\* <<quotient, remainder>> of a by b, b # 0
DivModN(a, b) ==
    LET ap == Zeros((4 - (Len(a) % 4)) % 4) \o a
        qr == DivChunks(ap, b, Len(ap) \div 4)
    IN  <<Strip(qr[1]), qr[2]>>

(***************************************************************************)
(* decimal.Decimal values.  A number is kept normalised (no trailing zero  *)
(* in the coefficient, zero has the empty coefficient), so that two        *)
(* records are equal exactly when the Decimals compare equal.              *)
(***************************************************************************)
Zero == [k |-> "num", s |-> 0, c |-> <<>>, e |-> 0]

NaN == [k |-> "nan", s |-> 0, c |-> <<>>, e |-> 0]

\* a name that is not bound yet
Unset == [k |-> "unset", s |-> 0, c |-> <<>>, e |-> 0]

\* the number of zeros that end c, c # 0
TrailingZeros(c) ==
    LET nz == {j \in 1..Len(c) : c[j] # 0}
    IN  Len(c) - (CHOOSE j \in nz : \A l \in nz : j >= l)

Norm(s, c, e) ==
    LET c1 == Strip(c)
        z  == TrailingZeros(c1)
    IN  IF c1 = <<>> THEN Zero
        ELSE [k |-> "num", s |-> s, c |-> SubSeq(c1, 1, Len(c1) - z), e |-> e + z]

\* the Decimal c * 10^e for a machine integer c >= 0
Dec(c, e) == Norm(0, NatDigits(c), e)

IsNum(a) == a.k = "num"

IsZero(a) == a.k = "num" /\ a.c = <<>>

\* (-1)^s * (c * 10^e + a positive fraction of 10^e if sticky), rounded
\* half-even to prec significant digits (the context's rounding)
Round(s, c, e, sticky, prec) ==
    LET c1 == Strip(c)
    IN  IF Len(c1) <= prec
        THEN Norm(s, c1, e)
        ELSE LET keep  == SubSeq(c1, 1, prec)
                 first == c1[prec + 1]
                 more  == sticky \/ \E i \in (prec + 2)..Len(c1) : c1[i] # 0
                 up    == \/ first > 5
                          \/ first = 5 /\ (more \/ keep[prec] % 2 = 1)
             IN  Norm(s, IF up THEN AddN(keep, <<1>>) ELSE keep, e + Len(c1) - prec)

\* -1, 0, 1: the order of two numbers' magnitudes
CmpAbs(a, b) ==
    IF a.c = <<>> \/ b.c = <<>>
    THEN (IF a.c = b.c THEN 0 ELSE IF a.c = <<>> THEN -1 ELSE 1)
    ELSE LET la == Len(a.c) + a.e
             lb == Len(b.c) + b.e
             e  == Min2(a.e, b.e)
         IN  IF la # lb THEN (IF la < lb THEN -1 ELSE 1)
             ELSE CmpN(ShiftN(a.c, a.e - e), ShiftN(b.c, b.e - e))

\* -1, 0, 1: the order of two numbers
DecCmp(a, b) ==
    IF a.s # b.s
    THEN (IF a.s = 1 THEN -1 ELSE 1)
    ELSE IF a.s = 0 THEN CmpAbs(a, b) ELSE CmpAbs(b, a)

DecNeg(a) == IF a.k = "num" /\ a.c # <<>> THEN [a EXCEPT !.s = 1 - a.s] ELSE a

DecAdd(a, b, prec) ==
    IF a.k # "num" \/ b.k # "num" THEN NaN
    ELSE LET e  == Min2(a.e, b.e)
             ca == ShiftN(a.c, a.e - e)
             cb == ShiftN(b.c, b.e - e)
         IN  IF a.s = b.s
             THEN Round(a.s, AddN(ca, cb), e, FALSE, prec)
             ELSE IF CmpN(ca, cb) >= 0
                  THEN Round(a.s, SubN(ca, cb), e, FALSE, prec)
                  ELSE Round(b.s, SubN(cb, ca), e, FALSE, prec)

DecSub(a, b, prec) == DecAdd(a, DecNeg(b), prec)

DecMul(a, b, prec) ==
    IF a.k # "num" \/ b.k # "num" THEN NaN
    ELSE Round((a.s + b.s) % 2, MulN(a.c, b.c), a.e + b.e, FALSE, prec)

\* a / b; a zero divisor signals DivisionByZero (InvalidOperation for 0 / 0),
\* which the default context traps: the result is then no number
DecDiv(a, b, prec) ==
    IF a.k # "num" \/ b.k # "num" THEN NaN
    ELSE IF b.c = <<>> THEN NaN
    ELSE IF a.c = <<>> THEN Zero
    ELSE LET sh == Max2(0, prec + 1 + Len(b.c) - Len(a.c))
             qr == DivModN(ShiftN(a.c, sh), b.c)
         IN  Round((a.s + b.s) % 2, qr[1], a.e - b.e - sh, qr[2] # <<>>, prec)

(***************************************************************************)
(* float(d) for a Decimal d that is not a whole number: the binary64       *)
(* number nearest to d (ties to even), kept as the Decimal of its exact    *)
(* value m * 2^-k = m * 5^k * 10^-k, with 2^52 <= m <= 2^53.               *)
(***************************************************************************)
\* 2^k in digits
RECURSIVE Pow2N(_)
Pow2N(k) == IF k <= 30 THEN NatDigits(2^k) ELSE MulN(NatDigits(2^30), Pow2N(k - 30))

\* 5^k in digits
RECURSIVE Pow5N(_)
Pow5N(k) == IF k <= 13 THEN NatDigits(5^k) ELSE MulN(NatDigits(5^13), Pow5N(k - 13))

\* the k with 2^52 <= |d| * 2^k < 2^53, for 0 < |d| < 2^52
BinaryScale(d) ==
    LET t   == Len(d.c) + d.e
        den == <<1>> \o Zeros(0 - d.e)
        lo  == Max2(0, 51 - ((t * 3322) \div 1000))
        hi  == Max2(0, 54 - (((t - 1) * 3321) \div 1000))
    IN  CHOOSE k \in lo..hi :
            /\ CmpN(MulN(d.c, Pow2N(k)), MulN(Pow2N(52), den)) >= 0
            /\ CmpN(MulN(d.c, Pow2N(k)), MulN(Pow2N(53), den)) < 0

\* float(d), d.e < 0
ToFloat(d) ==
    LET k   == BinaryScale(d)
        den == <<1>> \o Zeros(0 - d.e)
        qr  == DivModN(MulN(d.c, Pow2N(k)), den)
        q   == qr[1]
        cmp == CmpN(Strip(AddN(qr[2], qr[2])), den)
        up  == cmp > 0 \/ (cmp = 0 /\ q[Len(q)] % 2 = 1)
        m   == IF up THEN AddN(q, <<1>>) ELSE q
    IN  Norm(d.s, MulN(m, Pow5N(k)), 0 - k)

(***************************************************************************)
(* The decimal context.  The module alpaca_rsi sets the precision of the   *)
(* context of the thread that imports it; the context is kept per thread,  *)
(* and any other thread starts from decimal's default context.             *)
(***************************************************************************)
\* getcontext().prec = 12
Prec == 12

\* decimal.DefaultContext
DefaultContext == [prec |-> 28]

Threads == {"main", "worker"}

\* getcontext().prec as the thread t reads it, once "main" has imported
\* alpaca_rsi
getcontext(t) == IF t = "main" THEN [prec |-> Prec] ELSE DefaultContext

(***************************************************************************)
(* Values as the callers pass them.  A float or an int is written as the   *)
(* text str() prints for it: the digits c and the exponent e of            *)
(* "20000000.0" are 200000000 and -1.  "fnan" is float('nan'), "obj" an    *)
(* object whose str() is not a number (None).                              *)
(***************************************************************************)
Flt(m, e) == [k |-> "float", s |-> 0, c |-> NatDigits(m), e |-> e]

IntVal(n) == [k |-> "int", s |-> 0, c |-> NatDigits(n), e |-> 0]

FloatNaN == [k |-> "fnan", s |-> 0, c |-> <<>>, e |-> 0]

NoneEntry == [k |-> "obj", s |-> 0, c |-> <<>>, e |-> 0]

\* mutation: Decimal(int(v)), the fraction of the value is dropped
ToDecimal_Truncate(v) ==
    IF v.k \in {"float", "int"}
    THEN (IF v.e >= 0 THEN Norm(v.s, v.c, v.e)
          ELSE IF Len(v.c) + v.e <= 0 THEN Zero
          ELSE Norm(v.s, SubSeq(v.c, 1, Len(v.c) + v.e), 0))
    ELSE IF v.k = "fnan" THEN NaN
    ELSE Unset

\* Decimal(str(v)): the exact value of the text, whatever the precision
ToDecimal(v) ==
    IF v.k \in {"float", "int"} THEN Norm(v.s, v.c, v.e)
    ELSE IF v.k = "fnan" THEN NaN
    ELSE Unset

\* Decimal(str(v)) raises InvalidOperation on a text that is no number
Parses(v) == v.k \in {"float", "int", "fnan"}

\* mutation: an entry that is no number is replaced by 0
_decimal_list_Default(values) ==
    [ok |-> TRUE,
     list |-> [j \in 1..Len(values) |->
                  IF Parses(values[j]) THEN ToDecimal(values[j]) ELSE Zero]]

\* [Decimal(str(v)) for v in values]: the list, or the exception
_decimal_list(values) ==
    IF \A j \in 1..Len(values) : Parses(values[j])
    THEN [ok |-> TRUE, list |-> [j \in 1..Len(values) |-> ToDecimal(values[j])]]
    ELSE [ok |-> FALSE, list |-> <<>>]

Hundred == Dec(100, 0)

One == Dec(1, 0)

\* mutation: the length check is off by one
TooShort_OffByOne(c, p) == Len(c) < p

\* len(closes) < period + 1
TooShort(c, p) == Len(c) < p + 1

\* mutation: every difference counts as a gain
GainOf_Abs(diff) == IF diff.s = 1 THEN DecNeg(diff) ELSE diff

\* gains.append(diff) or gains.append(Decimal('0'))
GainOf(diff) == IF DecCmp(diff, Zero) = 1 THEN diff ELSE Zero

\* mutation: every difference counts as a loss
LossOf_Abs(diff) == IF diff.s = 1 THEN DecNeg(diff) ELSE diff

\* losses.append(Decimal('0')) or losses.append(-diff)
LossOf(diff) == IF DecCmp(diff, Zero) = 1 THEN Zero ELSE DecNeg(diff)

\* sum(xs, Decimal('0'))
RECURSIVE SumDec(_, _)
SumDec(xs, prec) ==
    IF xs = <<>> THEN Zero
    ELSE DecAdd(SumDec(SubSeq(xs, 1, Len(xs) - 1), prec), xs[Len(xs)], prec)

\* sum(seed, Decimal('0')) / Decimal(period)
SeedAvg(xs, p, prec) == DecDiv(SumDec(SubSeq(xs, 1, p), prec), Dec(p, 0), prec)

\* mutation: the running average is weighted by period, not period - 1
Smooth_FullWeight(avg, x, p, prec) ==
    DecDiv(DecAdd(DecMul(avg, Dec(p, 0), prec), x, prec), Dec(p, 0), prec)

\* (avg * Decimal(period - 1) + x) / Decimal(period)
Smooth(avg, x, p, prec) ==
    DecDiv(DecAdd(DecMul(avg, Dec(p - 1, 0), prec), x, prec), Dec(p, 0), prec)

\* mutation: 100 - 100 / rs
RsiFromRs_NoOne(x, prec) == DecSub(Hundred, DecDiv(Hundred, x, prec), prec)

\* mutation: 100 / (1 + rs)
RsiFromRs_Inverted(x, prec) == DecDiv(Hundred, DecAdd(One, x, prec), prec)

\* Decimal('100') - (Decimal('100') / (Decimal('1') + rs))
RsiFromRs(x, prec) ==
    DecSub(Hundred, DecDiv(Hundred, DecAdd(One, x, prec), prec), prec)

(***************************************************************************)
(* compute_rsi_from_closes(closes, period): one activation at a time, run  *)
(* by the thread `caller`.  prev is what the test harness around the       *)
(* function remembers of the activation before the current one.            *)
(***************************************************************************)
VARIABLES closes, period, caller, pc, err, closes_d, gains, losses, avg_gain,
          avg_loss, i, rs, rsi, nsmooth, prev

rsiVars == <<closes, period, caller, pc, err, closes_d, gains, losses, avg_gain,
             avg_loss, i, rs, rsi, nsmooth, prev>>

\* can_buy(api, price, qty): its arguments, its names and its result
VARIABLES cb_pc, price, qty, resp, bp, needed, needed_with_buffer, can_afford,
          cb_result

cbVars == <<cb_pc, price, qty, resp, bp, needed, needed_with_buffer, can_afford,
            cb_result>>

\* _execute_buy_order and _execute_sell_order of trade_bot.py: the configured
\* QTY, the arguments, the names of the bodies, and the arguments of the call
\* of place_order
VARIABLES QTY, ex_pc, side, amount, last_price, qty_numeric, current_cash,
          usable_cash, max_affordable_shares, order_value, qty_owned,
          qty_to_sell, qty_for_order, placed

exVars == <<QTY, ex_pc, side, amount, last_price, qty_numeric, current_cash,
            usable_cash, max_affordable_shares, order_value, qty_owned,
            qty_to_sell, qty_for_order, placed>>

\* ask_gpt_for_decision: the price it was given, the reply and the result
VARIABLES gpt_pc, text, stock_price, action, gpt_amount

gptVars == <<gpt_pc, text, stock_price, action, gpt_amount>>

\* fetch_all_indicators: the block it is at, its dict and lists, the
\* indicators whose fetch function was called, and what the last block read
VARIABLES ta_pc, ta_next, indicators, fetched, failed_indicators,
          disabled_indicators, last_flag, last_outcome

taVars == <<ta_pc, ta_next, indicators, fetched, failed_indicators,
            disabled_indicators, last_flag, last_outcome>>

\* in_market_hours: its argument and its result
VARIABLES now, market_open

mhVars == <<now, market_open>>

\* _retry_alpaca_call: its loop, the calls of func and the sleeps so far, the
\* last exception and value of func, and what the wrapper returned or raised
VARIABLES rt_pc, max_retries, attempt, calls, sleeps, last_exc, func_value,
          rt_result, raised

rtVars == <<rt_pc, max_retries, attempt, calls, sleeps, last_exc, func_value,
            rt_result, raised>>

\* get_rsi_from_alpaca: the closes the fetch returned, and how the call ended
VARIABLES gr_pc, fetched_closes, gr_err, gr_rsi

grVars == <<gr_pc, fetched_closes, gr_err, gr_rsi>>

\* get_last_trade_price: the method of its loop, the methods that failed, and
\* what it returned
VARIABLES lp_pc, lp_method, lp_failed, lp_price

lpVars == <<lp_pc, lp_method, lp_failed, lp_price>>

\* run_once: the statement it is at, its symbol and price, the decision,
\* and the calls of this activation that failed
VARIABLES ro_pc, symbol, ro_price, decision, ro_failed

roVars == <<ro_pc, symbol, ro_price, decision, ro_failed>>

\* main: its loop, the schedule, the timestamp and the flags of the
\* iteration, the symbol of the for loop, and the symbols and the number of
\* run_once calls of this iteration
VARIABLES mn_pc, SYMBOLS, start_time, end_time, mn_now, last_trading_date,
          sent_start_summary, sent_end_summary, sym_i, processed, ran

mnVars == <<mn_pc, SYMBOLS, start_time, end_time, mn_now, last_trading_date,
            sent_start_summary, sent_end_summary, sym_i, processed, ran>>

vars == <<rsiVars, cbVars, exVars, gptVars, taVars, mhVars, rtVars, grVars,
          lpVars, roVars, mnVars>>

\* what the steps of one component leave alone
notRsi ==
    <<cbVars, exVars, gptVars, taVars, mhVars, rtVars, grVars, lpVars,
      roVars, mnVars>>

notCb ==
    <<rsiVars, exVars, gptVars, taVars, mhVars, rtVars, grVars, lpVars,
      roVars, mnVars>>

notEx ==
    <<rsiVars, cbVars, gptVars, taVars, mhVars, rtVars, grVars, lpVars,
      roVars, mnVars>>

notGpt ==
    <<rsiVars, cbVars, exVars, taVars, mhVars, rtVars, grVars, lpVars,
      roVars, mnVars>>

notTaapi ==
    <<rsiVars, cbVars, exVars, gptVars, mhVars, rtVars, grVars, lpVars,
      roVars, mnVars>>

notHours ==
    <<rsiVars, cbVars, exVars, gptVars, taVars, rtVars, grVars, lpVars,
      roVars, mnVars>>

notRetry ==
    <<rsiVars, cbVars, exVars, gptVars, taVars, mhVars, grVars, lpVars,
      roVars, mnVars>>

notPrice ==
    <<rsiVars, cbVars, exVars, gptVars, taVars, mhVars, grVars,
      roVars, mnVars>>

notMain ==
    <<rsiVars, cbVars, gptVars, taVars, mhVars, rtVars, grVars, lpVars>>

notGetRsi ==
    <<cbVars, exVars, gptVars, taVars, mhVars, rtVars, lpVars,
      roVars, mnVars>>

\* the default of the period parameter
DefaultPeriod == 14

MaxLen == 4

MaxPeriod == 2

\* 0.0002, 0.0005, 0.000503 and 20000000.0
NumVals == {Flt(2, -4), Flt(5, -4), Flt(503, -6), Flt(200000000, -1)}

NonNumVals == {FloatNaN, NoneEntry}

sample_closes ==
    << Flt(4434, -2), Flt(4409, -2), Flt(4415, -2), Flt(4361, -2), Flt(4433, -2),
       Flt(4483, -2), Flt(451, -1),  Flt(4542, -2), Flt(4584, -2), Flt(4608, -2),
       Flt(4589, -2), Flt(4603, -2), Flt(4561, -2), Flt(4628, -2), Flt(4628, -2) >>

SeqsUpTo(S, n) == UNION {[1..m -> S] : m \in 0..n}

NoPrev == [has |-> FALSE, closes |-> <<>>, period |-> 0, caller |-> "main",
           pc |-> "idle", err |-> "none", rsi |-> Unset]

\* what the harness keeps of the activation that has just ended
Outcome == [has |-> TRUE, closes |-> closes, period |-> period, caller |-> caller,
            pc |-> pc, err |-> err, rsi |-> rsi]

Done == pc \in {"returned", "raised"}

\* the precision the running activation computes with
CtxPrec == getcontext(caller).prec

InitRSI ==
    /\ closes = <<>>
    /\ period = DefaultPeriod
    /\ caller = "main"
    /\ pc = "idle"
    /\ err = "none"
    /\ closes_d = <<>>
    /\ gains = <<>>
    /\ losses = <<>>
    /\ avg_gain = Unset
    /\ avg_loss = Unset
    /\ i = 0
    /\ rs = Unset
    /\ rsi = Unset
    /\ nsmooth = 0
    /\ prev = NoPrev

\* a fresh activation: the names of the body are not bound yet
FreshLocals ==
    /\ closes_d' = <<>>
    /\ gains' = <<>>
    /\ losses' = <<>>
    /\ avg_gain' = Unset
    /\ avg_loss' = Unset
    /\ i' = 0
    /\ rs' = Unset
    /\ rsi' = Unset
    /\ nsmooth' = 0

\* entry of the function in thread t, and its length check
Enter(c, p, t) ==
    /\ closes' = c
    /\ period' = p
    /\ caller' = t
    /\ FreshLocals
    /\ UNCHANGED notRsi
    /\ IF TooShort(c, p)
       THEN pc' = "raised" /\ err' = "ValueError"
       ELSE pc' = "convert" /\ err' = "none"

\* a first call, with any arguments
Call(c, p) ==
    /\ pc = "idle"
    /\ Enter(c, p, "main")
    /\ prev' = NoPrev

\* the module run as a script on its sample data
MainSample ==
    /\ pc = "idle"
    /\ Enter(sample_closes, DefaultPeriod, "main")
    /\ prev' = NoPrev

\* a caller, in any thread, calls again with the same arguments
CallAgain(t) ==
    /\ Done
    /\ ~prev.has
    /\ Enter(closes, period, t)
    /\ prev' = Outcome

\* the caller calls again after one more price has arrived
CallAppend(x) ==
    /\ Done
    /\ ~prev.has
    /\ Len(closes) < MaxLen
    /\ Enter(Append(closes, x), period, caller)
    /\ prev' = Outcome

\* the caller calls again with one element that is not a number
CallCorrupt(j, b) ==
    /\ Done
    /\ ~prev.has
    /\ j \in 1..Len(closes)
    /\ closes[j].k = "float"
    /\ Enter([closes EXCEPT ![j] = b], period, caller)
    /\ prev' = Outcome

\* after another call, the caller repeats the call it remembers
CallBack ==
    /\ Done
    /\ prev.has
    /\ <<closes, period>> # <<prev.closes, prev.period>>
    /\ Enter(prev.closes, prev.period, prev.caller)
    /\ UNCHANGED prev

\* closes_d = _decimal_list(closes)
Convert ==
    /\ pc = "convert"
    /\ LET r == _decimal_list(closes)
       IN  IF r.ok
           THEN /\ closes_d' = r.list
                /\ i' = 1
                /\ pc' = IF 1 < Len(r.list) THEN "diff" ELSE "seed"
                /\ err' = err
           ELSE /\ pc' = "raised"
                /\ err' = "InvalidOperation"
                /\ UNCHANGED <<closes_d, i>>
    /\ UNCHANGED <<closes, period, caller, gains, losses, avg_gain, avg_loss, rs,
                   rsi, nsmooth, prev, notRsi>>

\* one iteration of: for i in range(1, len(closes_d))
DiffStep ==
    /\ pc = "diff"
    /\ LET diff == DecSub(closes_d[i + 1], closes_d[i], CtxPrec)
       IN  IF diff.k # "num"
           THEN \* the comparison diff > 0 of a NaN raises
                /\ pc' = "raised"
                /\ err' = "InvalidOperation"
                /\ UNCHANGED <<gains, losses, i>>
           ELSE /\ gains' = Append(gains, GainOf(diff))
                /\ losses' = Append(losses, LossOf(diff))
                /\ i' = i + 1
                /\ pc' = IF i + 1 < Len(closes_d) THEN "diff" ELSE "seed"
                /\ err' = err
    /\ UNCHANGED <<closes, period, caller, closes_d, avg_gain, avg_loss, rs, rsi,
                   nsmooth, prev, notRsi>>

\* the seed averages over the first `period` entries
Seed ==
    /\ pc = "seed"
    /\ avg_gain' = SeedAvg(gains, period, CtxPrec)
    /\ avg_loss' = SeedAvg(losses, period, CtxPrec)
    /\ i' = period
    /\ pc' = IF period < Len(gains) THEN "smooth" ELSE "finish"
    /\ UNCHANGED <<closes, period, caller, err, closes_d, gains, losses, rs, rsi,
                   nsmooth, prev, notRsi>>

\* one iteration of: for i in range(period, len(gains))
SmoothStep ==
    /\ pc = "smooth"
    /\ avg_gain' = Smooth(avg_gain, gains[i + 1], period, CtxPrec)
    /\ avg_loss' = Smooth(avg_loss, losses[i + 1], period, CtxPrec)
    /\ i' = i + 1
    /\ nsmooth' = nsmooth + 1
    /\ pc' = IF i + 1 < Len(gains) THEN "smooth" ELSE "finish"
    /\ UNCHANGED <<closes, period, caller, err, closes_d, gains, losses, rs, rsi,
                   prev, notRsi>>

\* the zero-loss return, or rs and the RSI
Finish ==
    /\ pc = "finish"
    /\ IF IsZero(avg_loss)
       THEN /\ rsi' = Hundred
            /\ UNCHANGED rs
            /\ pc' = "returned"
            /\ err' = err
       ELSE LET q == DecDiv(avg_gain, avg_loss, CtxPrec)
                r == RsiFromRs(q, CtxPrec)
            IN  IF r.k = "num"
                THEN /\ rs' = q
                     /\ rsi' = r
                     /\ pc' = "returned"
                     /\ err' = err
                ELSE \* a division by zero is trapped
                     /\ pc' = "raised"
                     /\ err' = "DivisionByZero"
                     /\ UNCHANGED <<rs, rsi>>
    /\ UNCHANGED <<closes, period, caller, closes_d, gains, losses, avg_gain,
                   avg_loss, i, nsmooth, prev, notRsi>>

NextRSI ==
    \/ \E c \in SeqsUpTo(NumVals, MaxLen), p \in 1..MaxPeriod : Call(c, p)
    \/ MainSample
    \/ \E t \in Threads : CallAgain(t)
    \/ \E x \in NumVals : CallAppend(x)
    \/ \E j \in 1..MaxLen, b \in NonNumVals : CallCorrupt(j, b)
    \/ CallBack
    \/ Convert
    \/ DiffStep
    \/ Seed
    \/ SmoothStep
    \/ Finish

(***************************************************************************)
(* can_buy(api, price, qty) of modules/alpaca_client.py, with the          *)
(* get_wallet_amount it calls.  The bot's process does not import          *)
(* alpaca_rsi: its Decimal arithmetic runs in the default context.         *)
(***************************************************************************)
\* the api call failed on every attempt
ApiError == [k |-> "error", s |-> 0, c |-> <<>>, e |-> 0]

\* prices as main() passes them: 10.00, 33.33 and 100.00
PriceVals == {Dec(1000, -2), Dec(3333, -2), Dec(10000, -2)}

\* whole and fractional quantities: 1, 3, 0.5 and 2.5
QtyVals == {IntVal(1), IntVal(3), Flt(5, -1), Flt(25, -1)}

\* account.buying_power as the API gives it
BpVals == {Flt(0, 0), Flt(1000, -2), Flt(2512, -2), Flt(2513, -2), Flt(5000, -2), Flt(5025, -2),
           Flt(10000, -2), Flt(10048, -2), Flt(10049, -2), Flt(10050, -2),
           Flt(100000, -2)}

\* what api.get_account() can come to: an account with the field, an account
\* without it, a field that is not a number, or an exception
Responses == BpVals \cup {NoneEntry, FloatNaN, ApiError}

\* get_wallet_amount(api, 'buying_power'): Decimal(str(val)), or the exception
get_wallet_amount(r) ==
    IF r.k \in {"float", "int", "fnan"}
    THEN [ok |-> TRUE, val |-> ToDecimal(r)]
    ELSE [ok |-> FALSE, val |-> Unset]

\* mutation: no buffer is added
WithBuffer_None(n, prec) == n

\* needed * Decimal("1.005")
WithBuffer(n, prec) == DecMul(n, Dec(1005, -3), prec)

InitCanBuy ==
    /\ cb_pc = "idle"
    /\ price = Unset
    /\ qty = Unset
    /\ resp = Unset
    /\ bp = Unset
    /\ needed = Unset
    /\ needed_with_buffer = Unset
    /\ can_afford = FALSE
    /\ cb_result = FALSE

\* a call of can_buy
CanBuyCall(pr, q) ==
    /\ cb_pc \in {"idle", "returned"}
    /\ cb_pc' = "fetch"
    /\ price' = pr
    /\ qty' = q
    /\ resp' = Unset
    /\ bp' = Unset
    /\ needed' = Unset
    /\ needed_with_buffer' = Unset
    /\ can_afford' = FALSE
    /\ cb_result' = FALSE
    /\ UNCHANGED notCb

\* bp = get_wallet_amount(api, 'buying_power'); its exception is caught by
\* can_buy, which then returns False
GetWallet(r) ==
    /\ cb_pc = "fetch"
    /\ resp' = r
    /\ LET w == get_wallet_amount(r)
       IN  IF w.ok
           THEN /\ bp' = w.val
                /\ cb_pc' = "check"
                /\ cb_result' = cb_result
           ELSE /\ cb_pc' = "returned"
                /\ cb_result' = FALSE
                /\ bp' = bp
    /\ UNCHANGED <<price, qty, needed, needed_with_buffer, can_afford, notCb>>

\* needed, needed_with_buffer and the comparison; comparing a NaN raises,
\* which can_buy catches
CheckFunds ==
    /\ cb_pc = "check"
    /\ LET n  == DecMul(price, ToDecimal(qty), DefaultContext.prec)
           nb == WithBuffer(n, DefaultContext.prec)
       IN  /\ needed' = n
           /\ needed_with_buffer' = nb
           /\ IF bp.k = "num" /\ nb.k = "num"
              THEN /\ can_afford' = (DecCmp(bp, nb) >= 0)
                   /\ cb_result' = (DecCmp(bp, nb) >= 0)
              ELSE /\ can_afford' = can_afford
                   /\ cb_result' = FALSE
    /\ cb_pc' = "returned"
    /\ UNCHANGED <<price, qty, resp, bp, notCb>>

NextCanBuy ==
    \/ \E pr \in PriceVals, q \in QtyVals : CanBuyCall(pr, q)
    \/ \E r \in Responses : GetWallet(r)
    \/ CheckFunds

(***************************************************************************)
(* _execute_buy_order and _execute_sell_order of trade_bot.py.  Python's   *)
(* None is the record NoneEntry.  A quantity handed to place_order is an   *)
(* int or a float, kept with the Decimal of its exact value.               *)
(***************************************************************************)
IsNone(x) == x.k = "obj"

\* the texts QTY can be configured with: "1", "0.5", "0", and no number
QtyTexts == {Flt(1, 0), Flt(5, -1), Flt(0, 0), NoneEntry}

\* QTY = Decimal(QTY_ENV), or Decimal("1") when the text is no number
LoadQTY(t) == IF Parses(t) THEN ToDecimal(t) ELSE One

\* the amounts ask_gpt_for_decision can return: None, 0, -0.5, 0.1, 2, 1000
AmountVals == {NoneEntry, Zero, DecNeg(Dec(5, -1)), Dec(1, -1), Dec(2, 0), Dec(1000, 0)}

\* the last trade price: unknown, 0, 10.00, 300 or 980
LastPrices == {NoneEntry, Zero, Dec(1000, -2), Dec(300, 0), Dec(980, 0)}

\* account.cash as the API gives it, or no answer
CashResponses == {Flt(0, 0), Flt(500, -2), Flt(10000, -2), FloatNaN, ApiError}

\* account.buying_power as the API gives it, or no answer
PowerResponses == {Flt(0, 0), Flt(20000, -2), ApiError}

\* a short position of 5 shares
ShortPosition == [Flt(5, 0) EXCEPT !.s = 1]

\* pos.qty of api.get_position(symbol), or its exception
PositionResponses == {Flt(0, 0), Flt(10, 0), Flt(25, -1), ShortPosition, NoneEntry, ApiError}

NoOrder == [side |-> "none", kind |-> "none", val |-> Unset]

\* safety_margin = Decimal("0.02")
safety_margin == Dec(2, -2)

\* min_order_value = Decimal("1.00")
min_order_value == Dec(1, 0)

\* qty_numeric > 0
Positive(q) == DecCmp(q, Zero) > 0

\* price is not None and qty_numeric > 0
BuyChecked(p, q) == ~IsNone(p) /\ Positive(q)

\* mutation: the whole balance is usable
UsableCash_All(cash) == cash

\* current_cash * (Decimal("1") - safety_margin)
UsableCash(cash) ==
    DecMul(cash, DecSub(One, safety_margin, DefaultContext.prec), DefaultContext.prec)

\* can_buy(api, price, qty) for the account answer r
can_buy(r, pr, q) ==
    LET w  == get_wallet_amount(r)
        nb == WithBuffer(DecMul(pr, q, DefaultContext.prec), DefaultContext.prec)
    IN  w.ok /\ w.val.k = "num" /\ nb.k = "num" /\ DecCmp(w.val, nb) >= 0

\* q == q.to_integral_value()
IsIntegral(q) == q.e >= 0

\* int(qty) when it is a whole number, else float(qty)
QtyForOrder(q) ==
    IF IsIntegral(q) THEN [kind |-> "int", val |-> q]
    ELSE [kind |-> "float", val |-> ToFloat(q)]

InitExec ==
    /\ QTY = Unset
    /\ ex_pc = "import"
    /\ side = "none"
    /\ amount = Unset
    /\ last_price = Unset
    /\ qty_numeric = Unset
    /\ current_cash = Unset
    /\ usable_cash = Unset
    /\ max_affordable_shares = Unset
    /\ order_value = Unset
    /\ qty_owned = Unset
    /\ qty_to_sell = Unset
    /\ qty_for_order = NoOrder
    /\ placed = NoOrder

\* the module is imported: QTY is read from the environment
LoadConfig(t) ==
    /\ ex_pc = "import"
    /\ QTY' = LoadQTY(t)
    /\ ex_pc' = "ready"
    /\ UNCHANGED <<side, amount, last_price, qty_numeric, current_cash, usable_cash,
                   max_affordable_shares, order_value, qty_owned, qty_to_sell,
                   qty_for_order, placed, notEx>>

ExecIdle == ex_pc \in {"ready", "cancelled", "submitted", "failed"}

\* the body of _execute_buy_order(api, symbol, amount, price), up to
\* qty_numeric (the two wallet reads before it are only logged)
BuyEntry(a, p) ==
    /\ side' = "buy"
    /\ amount' = a
    /\ last_price' = p
    /\ qty_numeric' = IF IsNone(a) THEN QTY ELSE a
    /\ current_cash' = Unset
    /\ usable_cash' = Unset
    /\ max_affordable_shares' = Unset
    /\ order_value' = Unset
    /\ qty_owned' = Unset
    /\ qty_to_sell' = Unset
    /\ qty_for_order' = NoOrder
    /\ placed' = NoOrder
    /\ ex_pc' = IF BuyChecked(p, qty_numeric') THEN "cap" ELSE "submit"
    /\ UNCHANGED QTY

\* a call _execute_buy_order(api, symbol, a, p)
ExecuteBuy(a, p) ==
    /\ ExecIdle
    /\ BuyEntry(a, p)
    /\ UNCHANGED notEx

\* the cash cap; any exception in it is logged and the function goes on
CashCap(r) ==
    /\ ex_pc = "cap"
    /\ LET w == get_wallet_amount(r)
           u == UsableCash(w.val)
           m == DecDiv(u, last_price, DefaultContext.prec)
       IN  IF ~w.ok
           THEN /\ ex_pc' = "funds"
                /\ UNCHANGED <<current_cash, usable_cash, max_affordable_shares,
                               qty_numeric>>
           ELSE /\ current_cash' = w.val
                /\ usable_cash' = u
                /\ IF IsZero(last_price)
                   THEN \* the division raises
                        /\ ex_pc' = "funds"
                        /\ UNCHANGED <<max_affordable_shares, qty_numeric>>
                   ELSE /\ max_affordable_shares' = m
                        /\ IF m.k # "num"
                           THEN \* the comparison with a NaN raises
                                /\ ex_pc' = "funds"
                                /\ UNCHANGED qty_numeric
                           ELSE /\ qty_numeric' =
                                      IF DecCmp(qty_numeric, m) > 0 THEN m ELSE qty_numeric
                                /\ ex_pc' = IF DecCmp(qty_numeric', Zero) <= 0
                                            THEN "cancelled"
                                            ELSE IF BuyChecked(last_price, qty_numeric')
                                            THEN "funds" ELSE "submit"
    /\ UNCHANGED <<QTY, side, amount, last_price, order_value, qty_owned, qty_to_sell,
                   qty_for_order, placed, notEx>>

\* the minimum order value and the buying power check
FundsCheck(r) ==
    /\ ex_pc = "funds"
    /\ order_value' = DecMul(last_price, qty_numeric, DefaultContext.prec)
    /\ ex_pc' = IF DecCmp(order_value', min_order_value) < 0 THEN "cancelled"
                ELSE IF ~can_buy(r, last_price, qty_numeric) THEN "cancelled"
                ELSE "submit"
    /\ UNCHANGED <<QTY, side, amount, last_price, qty_numeric, current_cash,
                   usable_cash, max_affordable_shares, qty_owned, qty_to_sell,
                   qty_for_order, placed, notEx>>

\* mutation: the amount is sold as asked
CapToOwned_Uncapped(q, owned) == q

\* if qty_to_sell > qty_owned: qty_to_sell = qty_owned
CapToOwned(q, owned) == IF DecCmp(q, owned) > 0 THEN owned ELSE q

\* the body of _execute_sell_order(api, symbol, amount), up to the capped
\* qty_to_sell; r is what api.get_position answers
SellEntry(a, r) ==
    /\ side' = "sell"
    /\ amount' = a
    /\ last_price' = Unset
    /\ qty_numeric' = Unset
    /\ current_cash' = Unset
    /\ usable_cash' = Unset
    /\ max_affordable_shares' = Unset
    /\ order_value' = Unset
    /\ qty_for_order' = NoOrder
    /\ placed' = NoOrder
    /\ IF ~(r.k \in {"float", "int"})
       THEN \* no position, or a quantity that is no number
            /\ qty_owned' = Unset
            /\ qty_to_sell' = Unset
            /\ ex_pc' = "cancelled"
       ELSE /\ qty_owned' = ToDecimal(r)
            /\ IF DecCmp(qty_owned', Zero) <= 0
               THEN qty_to_sell' = Unset /\ ex_pc' = "cancelled"
               ELSE /\ qty_to_sell' =
                          IF IsNone(a) THEN qty_owned'
                          ELSE CapToOwned(a, qty_owned')
                    /\ ex_pc' = "submit"
    /\ UNCHANGED QTY

\* a call _execute_sell_order(api, symbol, a)
ExecuteSell(a, r) ==
    /\ ExecIdle
    /\ SellEntry(a, r)
    /\ UNCHANGED notEx

\* qty_for_order and place_order(api, symbol, qty_for_order, side); ok tells
\* whether the call returns or raises
Submit(ok) ==
    /\ ex_pc = "submit"
    /\ qty_for_order' = [side |-> side] @@
                        QtyForOrder(IF side = "buy" THEN qty_numeric ELSE qty_to_sell)
    /\ placed' = qty_for_order'
    /\ ex_pc' = IF ok THEN "submitted" ELSE "failed"
    /\ UNCHANGED <<QTY, side, amount, last_price, qty_numeric, current_cash,
                   usable_cash, max_affordable_shares, order_value, qty_owned,
                   qty_to_sell, notEx>>

NextExec ==
    \/ \E t \in QtyTexts : LoadConfig(t)
    \/ \E a \in AmountVals, p \in LastPrices : ExecuteBuy(a, p)
    \/ \E r \in CashResponses : CashCap(r)
    \/ \E r \in PowerResponses : FundsCheck(r)
    \/ \E a \in AmountVals, r \in PositionResponses : ExecuteSell(a, r)
    \/ \E ok \in BOOLEAN : Submit(ok)

(***************************************************************************)
(* ask_gpt_for_decision of modules/gpt_client.py: the parsing of the       *)
(* reply.  A text is the sequence of its characters.  Decimal(text) is     *)
(* modelled for signed digit strings with at most one point, which is what *)
(* the replies below contain.  wallet only reaches the log.                *)
(***************************************************************************)
BUY == <<"B", "U", "Y">>

SELL == <<"S", "E", "L", "L">>

NOTHING == <<"N", "O", "T", "H", "I", "N", "G">>

DigitChars == <<"0", "1", "2", "3", "4", "5", "6", "7", "8", "9">>

IsDigit(ch) == \E j \in 1..10 : DigitChars[j] = ch

DigitVal(ch) == (CHOOSE j \in 1..10 : DigitChars[j] = ch) - 1

LowerChars == <<"b", "u", "y", "s", "e", "l", "n", "o", "t", "h", "i", "g", "d", "k", "w", "c">>

UpperChars == <<"B", "U", "Y", "S", "E", "L", "N", "O", "T", "H", "I", "G", "D", "K", "W", "C">>

\* str.upper(), on the letters the replies contain
Upper(s) ==
    [j \in 1..Len(s) |->
        IF \E l \in 1..Len(LowerChars) : LowerChars[l] = s[j]
        THEN UpperChars[CHOOSE l \in 1..Len(LowerChars) : LowerChars[l] = s[j]]
        ELSE s[j]]

\* text.strip().split(): the maximal runs of characters that are no blanks
RECURSIVE Split(_)
Split(s) ==
    IF s = <<>> THEN <<>>
    ELSE IF s[1] = " " THEN Split(Tail(s))
    ELSE LET stops == {j \in 1..Len(s) : s[j] = " "}
             n     == IF stops = {} THEN Len(s) + 1
                      ELSE CHOOSE j \in stops : \A l \in stops : j <= l
         IN  <<SubSeq(s, 1, n - 1)>> \o Split(SubSeq(s, n, Len(s)))

\* mutation: commas are kept
RemoveCommas_Keep(s) == s

\* s.replace(',', '')
RemoveCommas(s) == SelectSeq(s, LAMBDA ch : ch # ",")

\* ''.join(c for c in s if (c.isdigit() or c in '.-$,'))
Cleaned(s) == SelectSeq(s, LAMBDA ch : IsDigit(ch) \/ ch \in {".", "-", "$", ","})

\* Decimal(s): the value, or the exception (ok = FALSE)
DecimalOf(s) ==
    LET signed == s # <<>> /\ s[1] \in {"-", "+"}
        body   == IF signed THEN Tail(s) ELSE s
        dots   == {j \in 1..Len(body) : body[j] = "."}
        digs   == SelectSeq(body, IsDigit)
        good   == /\ \A j \in 1..Len(body) : IsDigit(body[j]) \/ body[j] = "."
                  /\ Cardinality(dots) <= 1
                  /\ digs # <<>>
        frac   == IF dots = {} THEN 0 ELSE Len(body) - (CHOOSE j \in dots : TRUE)
    IN  IF good
        THEN [ok |-> TRUE,
              val |-> Norm(IF signed /\ s[1] = "-" THEN 1 ELSE 0,
                           [j \in 1..Len(digs) |-> DigitVal(digs[j])], 0 - frac)]
        ELSE [ok |-> FALSE, val |-> NoneEntry]

\* dollar_amount / stock_price
DollarsToShares(d, p) == DecDiv(d, p, DefaultContext.prec)

\* the amount of one token, as both the first parsing and the fallback
\* compute it: ok = FALSE when Decimal raises
AmountFrom(tok, p) ==
    IF tok # <<>> /\ tok[1] = "$"
    THEN LET d == DecimalOf(RemoveCommas(Tail(tok)))
         IN  IF ~d.ok THEN d
             ELSE IF DecCmp(p, Zero) > 0
             THEN [ok |-> TRUE, val |-> DollarsToShares(d.val, p)]
             ELSE [ok |-> TRUE, val |-> NoneEntry]
    ELSE DecimalOf(RemoveCommas(tok))

\* mutation: any first token is an action
KnownAction_Any(a) == TRUE

\* action in ("BUY", "SELL", "NOTHING")
KnownAction(a) == a \in {BUY, SELL, NOTHING}

\* the return value for the reply t
ParseReply(t, p) ==
    LET parts == Split(t)
        act   == Upper(parts[1])
        first == AmountFrom(parts[2], p)
        again == AmountFrom(Cleaned(parts[2]), p)
    IN  IF t = <<>> \/ parts = <<>> THEN [action |-> NOTHING, amount |-> NoneEntry]
        ELSE IF ~KnownAction(act) THEN [action |-> NOTHING, amount |-> NoneEntry]
        ELSE IF act \in {BUY, SELL} /\ Len(parts) >= 2
        THEN [action |-> act,
              amount |-> IF first.ok THEN first.val
                         ELSE IF again.ok THEN again.val ELSE NoneEntry]
        ELSE [action |-> act, amount |-> NoneEntry]

\* first tokens: BUY, buy, SELL, Sell, NOTHING, HOLD, "BUY," and none
FirstWords == {BUY, <<"b", "u", "y">>, SELL, <<"S", "e", "l", "l">>, NOTHING,
               <<"H", "O", "L", "D">>, <<"B", "U", "Y", ",">>, <<>>}

\* what follows: nothing, a blank, "$50", "$50,000", "$7.5", "10", "1,000",
\* "0", "-5", "2.5", "$", "now", "~10", "$5k", "$-5", "$20 now"
Rests == {<<>>, <<" ">>, <<" ", "$", "5", "0">>,
          <<" ", "$", "5", "0", ",", "0", "0", "0">>, <<" ", "$", "7", ".", "5">>,
          <<" ", "1", "0">>, <<" ", "1", ",", "0", "0", "0">>, <<" ", "0">>,
          <<" ", "-", "5">>, <<" ", "2", ".", "5">>, <<" ", "$">>,
          <<" ", "n", "o", "w">>, <<" ", "~", "1", "0">>, <<" ", "$", "5", "k">>,
          <<" ", "$", "-", "5">>, <<" ", " ", "$", "2", "0", " ", "n", "o", "w">>}

Replies == {w \o r : w \in FirstWords, r \in Rests}

\* stock_price: 0 (price unknown), 3, 10.00 and -1
StockPrices == {Zero, Dec(3, 0), Dec(1000, -2), DecNeg(One)}

InitGpt ==
    /\ gpt_pc = "idle"
    /\ text = <<>>
    /\ stock_price = Unset
    /\ action = <<>>
    /\ gpt_amount = Unset

\* ask_gpt_for_decision is called and sends its prompt
AskGpt(p) ==
    /\ gpt_pc \in {"idle", "returned", "raised"}
    /\ gpt_pc' = "asked"
    /\ stock_price' = p
    /\ text' = <<>>
    /\ action' = <<>>
    /\ gpt_amount' = Unset
    /\ UNCHANGED notGpt

\* the reply arrives and is parsed
Reply(t) ==
    /\ gpt_pc = "asked"
    /\ text' = t
    /\ action' = ParseReply(t, stock_price).action
    /\ gpt_amount' = ParseReply(t, stock_price).amount
    /\ gpt_pc' = "returned"
    /\ UNCHANGED <<stock_price, notGpt>>

\* both API calls fail: the exception is raised to the caller
ReplyError ==
    /\ gpt_pc = "asked"
    /\ gpt_pc' = "raised"
    /\ UNCHANGED <<text, stock_price, action, gpt_amount, notGpt>>

NextGpt ==
    \/ \E p \in StockPrices : AskGpt(p)
    \/ \E t \in Replies : Reply(t)
    \/ ReplyError

(***************************************************************************)
(* fetch_all_indicators of modules/taapi.py.  The ten blocks of the        *)
(* function are one step each; a step reads its ENABLE_ flag and, when     *)
(* the indicator is enabled, calls its fetch function.                     *)
(***************************************************************************)
\* the keys in the order of the blocks
IndicatorKeys == <<"rsi", "ma", "ema", "pattern", "adx", "adxr", "candle",
                   "volume", "bbands", "dmi">>

\* the names the function logs
IndicatorLabels == <<"RSI", "MA", "EMA", "Pattern", "ADX", "ADXR", "Candle",
                     "Volume", "BBands", "DMI">>

\* values of an ENABLE_ variable; "true" is also what an unset one reads as
FlagTexts == {"true", "On", "false"}

\* str.lower() on these texts
LowerText(t) == IF t = "On" THEN "on" ELSE t

\* mutation: every indicator counts as enabled
is_indicator_enabled_Always(t) == TRUE

\* os.getenv(env_var, 'true').lower() in ('true', '1', 'yes', 'on')
is_indicator_enabled(t) == LowerText(t) \in {"true", "1", "yes", "on"}

\* a fetch function returns a value, returns None, or raises
FetchOutcomes == {"value", "None", "raises"}

\* the texts of the _PERIOD variables: the defaults, or a text int() rejects
PeriodConfigs == {"defaults", "abc"}

InitTaapi ==
    /\ ta_pc = "idle"
    /\ ta_next = 1
    /\ indicators = <<>>
    /\ fetched = {}
    /\ failed_indicators = <<>>
    /\ disabled_indicators = <<>>
    /\ last_flag = "none"
    /\ last_outcome = "none"

\* entry: the periods are read; int() raises on a text that is no integer
FetchAll(cfg) ==
    /\ ta_pc \in {"idle", "returned", "raised"}
    /\ ta_pc' = IF cfg = "defaults" THEN "fetching" ELSE "raised"
    /\ ta_next' = 1
    /\ indicators' = <<>>
    /\ fetched' = {}
    /\ failed_indicators' = <<>>
    /\ disabled_indicators' = <<>>
    /\ last_flag' = "none"
    /\ last_outcome' = "none"
    /\ UNCHANGED notTaapi

\* the block of the indicator ta_next; flag is its ENABLE_ text and o what
\* its fetch function does when called
FetchOne(flag, o) ==
    /\ ta_pc = "fetching"
    /\ ta_next <= Len(IndicatorKeys)
    /\ last_flag' = flag
    /\ LET key   == IndicatorKeys[ta_next]
           label == IndicatorLabels[ta_next]
       IN  IF is_indicator_enabled(flag)
           THEN /\ fetched' = fetched \cup {key}
                /\ last_outcome' = o
                /\ indicators' = (key :> (IF o = "value" THEN "value" ELSE "None"))
                                    @@ indicators
                /\ failed_indicators' = IF o = "value" THEN failed_indicators
                                        ELSE Append(failed_indicators, label)
                /\ UNCHANGED disabled_indicators
           ELSE /\ o = "None"
                /\ last_outcome' = "none"
                /\ indicators' = (key :> "None") @@ indicators
                /\ disabled_indicators' = Append(disabled_indicators, label)
                /\ UNCHANGED <<fetched, failed_indicators>>
    /\ ta_next' = ta_next + 1
    /\ UNCHANGED <<ta_pc, notTaapi>>

\* the summary is logged and the dict returned
ReturnIndicators ==
    /\ ta_pc = "fetching"
    /\ ta_next = Len(IndicatorKeys) + 1
    /\ ta_pc' = "returned"
    /\ UNCHANGED <<ta_next, indicators, fetched, failed_indicators,
                   disabled_indicators, last_flag, last_outcome, notTaapi>>

NextTaapi ==
    \/ \E cfg \in PeriodConfigs : FetchAll(cfg)
    \/ \E flag \in FlagTexts, o \in FetchOutcomes : FetchOne(flag, o)
    \/ ReturnIndicators

(***************************************************************************)
(* modules/market_schedule.py.  A date is a record of year, month and day; *)
(* Ordinal is date.toordinal(), on which timedelta(days = n) adds n.  A    *)
(* datetime `now` is aware and in US/Eastern: its date, and its time in    *)
(* seconds after midnight.                                                 *)
(***************************************************************************)
IsLeap(y) == y % 4 = 0 /\ (y % 100 # 0 \/ y % 400 = 0)

DaysInMonth(y, m) ==
    IF m = 2 THEN (IF IsLeap(y) THEN 29 ELSE 28)
    ELSE IF m \in {4, 6, 9, 11} THEN 30 ELSE 31

RECURSIVE DaysBeforeMonth(_, _)
DaysBeforeMonth(y, m) ==
    IF m = 1 THEN 0 ELSE DaysBeforeMonth(y, m - 1) + DaysInMonth(y, m - 1)

\* datetime(y, m, d).date().toordinal()
Ordinal(y, m, d) ==
    365 * (y - 1) + ((y - 1) \div 4) - ((y - 1) \div 100) + ((y - 1) \div 400)
        + DaysBeforeMonth(y, m) + d

OrdinalOf(date) == Ordinal(date.year, date.month, date.day)

\* date.weekday() of the date with ordinal o: Monday = 0 .. Sunday = 6
weekday(o) == (o + 6) % 7

\* the nth occurrence of a weekday in a month
_nth_weekday(year, month, wd, n) ==
    LET first_weekday == weekday(Ordinal(year, month, 1))
        delta_days    == (wd - first_weekday) % 7
    IN  Ordinal(year, month, 1 + delta_days + (n - 1) * 7)

\* the last occurrence of a weekday in a month
_last_weekday(year, month, wd) ==
    LET d == Ordinal(year, month, DaysInMonth(year, month))
    IN  d - ((weekday(d) - wd) % 7)

\* Easter Sunday
_easter_date(year) ==
    LET a == year % 19
        b == year \div 100
        c == year % 100
        d == b \div 4
        e == b % 4
        f == (b + 8) \div 25
        g == (b - f + 1) \div 3
        h == (19 * a + b - d - g + 15) % 30
        i2 == c \div 4
        k == c % 4
        l == (32 + 2 * e + 2 * i2 - h - k) % 7
        m == (a + 11 * h + 22 * l) \div 451
    IN  Ordinal(year, (h + l - 7 * m + 114) \div 31, ((h + l - 7 * m + 114) % 31) + 1)

\* a fixed holiday as observed: Saturday -> Friday, Sunday -> Monday
Observed(o) ==
    IF weekday(o) = 5 THEN o - 1 ELSE IF weekday(o) = 6 THEN o + 1 ELSE o

is_market_holiday(date) ==
    LET year == date.year
    IN  OrdinalOf(date) \in
            { Observed(Ordinal(year, 1, 1)),
              _nth_weekday(year, 1, 0, 3),
              _nth_weekday(year, 2, 0, 3),
              _easter_date(year) - 2,
              _last_weekday(year, 5, 0),
              Observed(Ordinal(year, 6, 19)),
              Observed(Ordinal(year, 7, 4)),
              _nth_weekday(year, 9, 0, 1),
              _nth_weekday(year, 11, 3, 4),
              Observed(Ordinal(year, 12, 25)) }

is_early_close(date) ==
    LET year == date.year
    IN  OrdinalOf(date) \in
            { Ordinal(year, 7, 4) - 1,
              _nth_weekday(year, 11, 3, 4) + 1,
              Ordinal(year, 12, 24) }

is_trading_day(date) == weekday(OrdinalOf(date)) < 5 /\ ~is_market_holiday(date)

\* dtime(hour = h, minute = m), in seconds after midnight
dtime(h, m) == h * 3600 + m * 60

\* start <= now <= end
in_market_hours(n) ==
    LET start == dtime(9, 30)
        end   == IF is_early_close(n.date) THEN dtime(13, 0) ELSE dtime(16, 0)
    IN  start <= n.t /\ n.t <= end

Years == 2025..2026

Dates == {dt \in [year : Years, month : 1..12, day : 1..31] :
             dt.day <= DaysInMonth(dt.year, dt.month)}

\* midnight, and the seconds around 9:30, 13:00 and 16:00
Times == {0, dtime(9, 30) - 1, dtime(9, 30), dtime(13, 0), dtime(13, 0) + 1,
          dtime(16, 0), dtime(16, 0) + 1}

NoTime == [date |-> [year |-> 0, month |-> 0, day |-> 0], t |-> 0]

InitHours ==
    /\ now = NoTime
    /\ market_open = FALSE

\* the call in_market_hours(now)
InMarketHours(date, t) ==
    /\ now = NoTime
    /\ now' = [date |-> date, t |-> t]
    /\ market_open' = in_market_hours(now')
    /\ UNCHANGED notHours

NextHours == \E date \in Dates, t \in Times : InMarketHours(date, t)

(***************************************************************************)
(* _retry_alpaca_call(func, max_retries) of modules/alpaca_client.py.  An  *)
(* exception is a record of the call that raised it, its response (absent, *)
(* or a record with the status code) and its message.  The length of a     *)
(* sleep, delay * backoff ** attempt, does not reach the state.            *)
(***************************************************************************)
\* the texts of the messages and of the keywords
SERVER_ERROR == <<"S", "e", "r", "v", "e", "r", " ", "E", "r", "r", "o", "r">>

LOWER_SERVER_ERROR == <<"s", "e", "r", "v", "e", "r", " ", "e", "r", "r", "o", "r">>

M500 == <<"5", "0", "0">>

M502 == <<"5", "0", "2">>

M503 == <<"5", "0", "3">>

M504 == <<"5", "0", "4">>

M404 == <<"4", "0", "4">>

CONNECTION == <<"C", "o", "n", "n", "e", "c", "t", "i", "o", "n">>

TIMEOUT == <<"t", "i", "m", "e", "o", "u", "t">>

DENIED == <<"d", "e", "n", "i", "e", "d">>

KW_CONNECTION == <<"c", "o", "n", "n", "e", "c", "t", "i", "o", "n">>

KW_NETWORK == <<"n", "e", "t", "w", "o", "r", "k">>

KW_UNREACHABLE == <<"u", "n", "r", "e", "a", "c", "h", "a", "b", "l", "e">>

MaxRetries == 3

\* the exception has no response attribute, or it is None
NoResponse == [present |-> FALSE, status_code |-> 0]

\* e.response with its status_code (0: the attribute is missing)
Response(code) == [present |-> TRUE, status_code |-> code]

\* messages: "Server Error", "server error", "503", "Connection", "timeout",
\* "denied" and "404"
Messages == {SERVER_ERROR, LOWER_SERVER_ERROR, M503, CONNECTION, TIMEOUT, DENIED, M404}

\* what func can raise
Exceptions ==
    [response : {NoResponse}, msg : Messages] \cup
    [response : {Response(0), Response(404), Response(500), Response(599), Response(600)},
     msg : {SERVER_ERROR, DENIED}]

\* w in s
Contains(s, w) == \E j \in 1..(Len(s) - Len(w) + 1) : SubSeq(s, j, j + Len(w) - 1) = w

\* str.lower(), on the letters the messages contain
LowerCase(s) ==
    [j \in 1..Len(s) |->
        IF \E l \in 1..Len(UpperChars) : UpperChars[l] = s[j]
        THEN LowerChars[CHOOSE l \in 1..Len(UpperChars) : UpperChars[l] = s[j]]
        ELSE s[j]]

\* mutation: every failure is retried
should_retry_Always(e) == TRUE

\* should_retry, as the except block computes it
should_retry(e) ==
    IF e.response.present
    THEN e.response.status_code # 0
            /\ 500 <= e.response.status_code /\ e.response.status_code <= 599
    ELSE \/ \E w \in {SERVER_ERROR, M500, M502, M503, M504} : Contains(e.msg, w)
         \/ \E w \in {KW_CONNECTION, TIMEOUT, KW_NETWORK, KW_UNREACHABLE} :
                Contains(LowerCase(e.msg), w)

\* mutation: no attempt is the last one
IsLastAttempt_Never(a, n) == FALSE

\* attempt == max_retries - 1
IsLastAttempt(a, n) == a = n - 1

NoException == [call |-> 0, response |-> NoResponse, msg |-> <<>>]

NoValue == [call |-> 0, val |-> "unset"]

InitRetry ==
    /\ rt_pc = "idle"
    /\ max_retries = 0
    /\ attempt = 0
    /\ calls = 0
    /\ sleeps = 0
    /\ last_exc = NoException
    /\ func_value = NoValue
    /\ rt_result = "unset"
    /\ raised = NoException

\* the names of a fresh activation, and the start of:
\* for attempt in range(max_retries)
EnterRetry(n) ==
    /\ max_retries' = n
    /\ attempt' = 0
    /\ calls' = 0
    /\ sleeps' = 0
    /\ last_exc' = NoException
    /\ func_value' = NoValue
    /\ raised' = NoException
    /\ IF 0 < n
       THEN rt_pc' = "calling" /\ rt_result' = "unset"
       ELSE \* the loop body never runs: the function ends without a return
            rt_pc' = "returned" /\ rt_result' = "None"

\* a call _retry_alpaca_call(func, max_retries = n)
RetryCall(n) ==
    /\ rt_pc \in {"idle", "returned", "raised"}
    /\ EnterRetry(n)
    /\ UNCHANGED notRetry

\* return func(): func returns v
FuncReturns(v) ==
    /\ rt_pc = "calling"
    /\ calls' = calls + 1
    /\ func_value' = [call |-> calls + 1, val |-> v]
    /\ rt_result' = v
    /\ rt_pc' = "returned"
    /\ UNCHANGED <<max_retries, attempt, sleeps, last_exc, raised, notRetry>>

\* func raises e: the except block
FuncRaises(e) ==
    /\ rt_pc = "calling"
    /\ calls' = calls + 1
    /\ last_exc' = [call |-> calls + 1, response |-> e.response, msg |-> e.msg]
    /\ IF IsLastAttempt(attempt, max_retries) \/ ~should_retry(e)
       THEN rt_pc' = "raised" /\ raised' = last_exc'
       ELSE rt_pc' = "sleeping" /\ raised' = raised
    /\ UNCHANGED <<max_retries, attempt, sleeps, func_value, rt_result, notRetry>>

\* time.sleep(wait_time) returns; continue with the next attempt, or leave
\* the loop when there is none
SleepEnds ==
    /\ rt_pc = "sleeping"
    /\ sleeps' = sleeps + 1
    /\ attempt' = attempt + 1
    /\ IF attempt + 1 < max_retries
       THEN rt_pc' = "calling" /\ rt_result' = rt_result
       ELSE rt_pc' = "returned" /\ rt_result' = "None"
    /\ UNCHANGED <<max_retries, calls, last_exc, func_value, raised, notRetry>>

RetryStep ==
    \/ \E v \in {"order", "None"} : FuncReturns(v)
    \/ \E e \in Exceptions : FuncRaises(e)
    \/ SleepEnds

NextRetry ==
    \/ \E n \in 0..MaxRetries : RetryCall(n)
    \/ \E v \in {"order", "None"} : FuncReturns(v)
    \/ \E e \in Exceptions : FuncRaises(e)
    \/ SleepEnds

(***************************************************************************)
(* get_rsi_from_alpaca(api, symbol, period, timeframe, limit): the fetch,  *)
(* the length check, the window handed to compute_rsi_from_closes, and the *)
(* value or exception it passes on.                                        *)
(***************************************************************************)
\* list(closes)[-(period + 1):]
Window(c, p) ==
    IF Len(c) <= p + 1 THEN c ELSE SubSeq(c, Len(c) - p, Len(c))

InitGetRsi ==
    /\ gr_pc = "idle"
    /\ fetched_closes = <<>>
    /\ gr_err = "none"
    /\ gr_rsi = Unset

\* neither function is running
GetRsiIdle == gr_pc = "idle" /\ pc = "idle"

\* fetch_closes_from_alpaca raises: the exception passes through
FetchFails ==
    /\ GetRsiIdle
    /\ gr_pc' = "raised"
    /\ gr_err' = "RuntimeError"
    /\ fetched_closes' = <<>>
    /\ gr_rsi' = Unset
    /\ UNCHANGED <<rsiVars, notGetRsi>>

\* the fetch returns c, a list of floats that is not empty; the length check,
\* and the call of compute_rsi_from_closes on the window, in thread t
GetRsi(c, p, t) ==
    /\ GetRsiIdle
    /\ c # <<>>
    /\ fetched_closes' = c
    /\ gr_rsi' = Unset
    /\ IF Len(c) < p + 1
       THEN /\ gr_pc' = "raised"
            /\ gr_err' = "RuntimeError"
            /\ UNCHANGED rsiVars
       ELSE /\ gr_pc' = "computing"
            /\ gr_err' = "none"
            /\ closes' = Window(c, p)
            /\ period' = p
            /\ caller' = t
            /\ FreshLocals
            /\ prev' = NoPrev
            /\ IF TooShort(Window(c, p), p)
               THEN pc' = "raised" /\ err' = "ValueError"
               ELSE pc' = "convert" /\ err' = "none"
    /\ UNCHANGED notGetRsi

\* return compute_rsi_from_closes(closes, period=period)
GetRsiEnds ==
    /\ gr_pc = "computing"
    /\ Done
    /\ gr_pc' = pc
    /\ gr_err' = err
    /\ gr_rsi' = rsi
    /\ UNCHANGED <<fetched_closes, rsiVars, notGetRsi>>

\* compute_rsi_from_closes called on its own
DirectCall(c, p) == GetRsiIdle /\ Call(c, p)

\* get_rsi_from_alpaca, and compute_rsi_from_closes called on its own
NextGetRsi ==
    \/ FetchFails
    \/ \E c \in SeqsUpTo(NumVals \cup {FloatNaN}, MaxLen), p \in 1..MaxPeriod,
          t \in Threads : GetRsi(c, p, t)
    \/ GetRsiEnds
    \/ \E c \in SeqsUpTo(NumVals, MaxLen), p \in 1..MaxPeriod :
          DirectCall(c, p)
    \/ Convert
    \/ DiffStep
    \/ Seed
    \/ SmoothStep
    \/ Finish

(***************************************************************************)
(* get_last_trade_price(api, symbol): its loop over the three methods,     *)
(* each run by _retry_alpaca_call with the retry count of the environment. *)
(***************************************************************************)
\* the methods, in the order of the list the loop runs over
Methods == <<"latest_quote", "latest_bar", "snapshot">>

\* the loop has no further method
IsLastMethod(m) == m = Len(Methods)

InitPrice ==
    /\ lp_pc = "idle"
    /\ lp_method = 0
    /\ lp_failed = {}
    /\ lp_price = "unset"

\* entry of get_last_trade_price and the first iteration of the loop:
\* _retry_alpaca_call(_get_latest_quote) with ALPACA_RETRY_ATTEMPTS = n
GetPrice(n) ==
    /\ lp_pc = "idle"
    /\ rt_pc = "idle"
    /\ lp_pc' = "trying"
    /\ lp_method' = 1
    /\ lp_failed' = {}
    /\ lp_price' = "unset"
    /\ EnterRetry(n)
    /\ UNCHANGED notPrice

\* the wrapper returned: return price
PriceReturns ==
    /\ lp_pc = "trying"
    /\ rt_pc = "returned"
    /\ lp_pc' = "returned"
    /\ lp_price' = rt_result
    /\ UNCHANGED <<lp_method, lp_failed, rtVars, notPrice>>

\* the wrapper raised: continue with the next method, or RuntimeError after
\* the last
MethodFails ==
    /\ lp_pc = "trying"
    /\ rt_pc = "raised"
    /\ lp_failed' = lp_failed \cup {Methods[lp_method]}
    /\ lp_price' = lp_price
    /\ IF IsLastMethod(lp_method)
       THEN /\ lp_pc' = "raised"
            /\ UNCHANGED <<lp_method, rtVars>>
       ELSE /\ lp_pc' = "trying"
            /\ lp_method' = lp_method + 1
            /\ EnterRetry(max_retries)
    /\ UNCHANGED notPrice

NextPrice ==
    \/ \E n \in 0..MaxRetries : GetPrice(n)
    \/ \E v \in {"price"} : FuncReturns(v)
    \/ \E e \in Exceptions : FuncRaises(e)
    \/ SleepEnds
    \/ PriceReturns
    \/ MethodFails

(***************************************************************************)
(* run_once(api, symbol) and the loop of main() of trade_bot.py.  run_once *)
(* hands the decision to _execute_buy_order or _execute_sell_order, whose  *)
(* steps are those above.  A timestamp is a date and the seconds after     *)
(* midnight in US/Eastern.                                                 *)
(***************************************************************************)
\* the calls run_once and the functions it calls make to the outside
Calls == {"indicators", "rsi", "price", "positions", "wallet", "gpt", "order",
          "discord"}

\* mutation: the call of ask_gpt_for_decision is outside any try block
Caught_NotGpt(call) == call \in Calls \ {"gpt"}

\* the call is made inside a try block with `except Exception`
Caught(call) == call \in Calls

\* where run_once goes when the call has failed in a way its code handles
AfterFailure(call, next) == IF Caught(call) THEN next ELSE "raised"

Decisions == {BUY, SELL, NOTHING}

\* mutation: every decision but SELL buys
Dispatch_ElseBuy(d) == IF d = SELL THEN "sell" ELSE "buy"

\* if decision == "BUY": ... elif decision == "SELL": ... else: ...
Dispatch(d) == IF d = BUY THEN "buy" ELSE IF d = SELL THEN "sell" ELSE "none"

\* SYMBOLS as the environment configures it
SymbolLists == {<<"AAPL">>, <<"AAPL", "MSFT">>}

\* parse_et_time of a text that is no HH:MM
BadTime == 0 - 1

\* SCHEDULE_START and SCHEDULE_END: not set, wider and narrower than the
\* market hours, and a text that is no time
Schedules == {<<dtime(9, 30), dtime(16, 0)>>, <<dtime(8, 0), dtime(17, 0)>>,
              <<dtime(10, 0), dtime(13, 0)>>, <<BadTime, dtime(16, 0)>>}

\* a Saturday and the day after Thanksgiving
MainDates == {[year |-> 2025, month |-> 1, day |-> 4],
              [year |-> 2025, month |-> 11, day |-> 28]}

\* what the calls of one run_once answer: QTY "1"; the price unknown or
\* 10.00; no amount or 1000 shares; cash and buying power 100.00 and 200.00
\* or none; a position of 10 shares or none
MainQtyTexts == {Flt(1, 0)}

MainPrices == {NoneEntry, Dec(1000, -2)}

MainAmounts == {NoneEntry, Dec(1000, 0)}

MainCash == {Flt(10000, -2), ApiError}

MainPower == {Flt(0, 0), Flt(20000, -2)}

MainPositions == {Flt(10, 0), ApiError}

\* the calls among positions and wallet that fail in one run_once
ContextFailures == {{}, {"positions", "wallet"}}

\* mutation: no time is after the end of the schedule
AfterEnd_Never(n, e) == FALSE

\* now > today_end
AfterEnd(n, e) == n.t > e

\* now < today_start
BeforeStart(n, s) == n.t < s

\* the clock has advanced from m to n
Later(n, m) ==
    IF m = NoTime THEN TRUE
    ELSE IF n.date = m.date THEN n.t > m.t
    ELSE OrdinalOf(n.date) > OrdinalOf(m.date)

InitMain ==
    /\ ro_pc = "idle"
    /\ symbol = ""
    /\ ro_price = Unset
    /\ decision = <<>>
    /\ ro_failed = {}
    /\ mn_pc = "start"
    /\ SYMBOLS = <<>>
    /\ start_time = 0
    /\ end_time = 0
    /\ mn_now = NoTime
    /\ last_trading_date = NoTime.date
    /\ sent_start_summary = FALSE
    /\ sent_end_summary = FALSE
    /\ sym_i = 0
    /\ processed = <<>>
    /\ ran = 0

\* no activation of _execute_buy_order or _execute_sell_order
ExecFresh ==
    /\ ex_pc' = "ready"
    /\ side' = "none"
    /\ amount' = Unset
    /\ last_price' = Unset
    /\ qty_numeric' = Unset
    /\ current_cash' = Unset
    /\ usable_cash' = Unset
    /\ max_affordable_shares' = Unset
    /\ order_value' = Unset
    /\ qty_owned' = Unset
    /\ qty_to_sell' = Unset
    /\ qty_for_order' = NoOrder
    /\ placed' = NoOrder
    /\ UNCHANGED QTY

\* main() up to its loop: the symbols and the schedule of the environment
Main(syms, sched) ==
    /\ mn_pc = "start"
    /\ ex_pc = "ready"
    /\ SYMBOLS' = syms
    /\ start_time' = sched[1]
    /\ end_time' = sched[2]
    /\ mn_pc' = "loop"
    /\ UNCHANGED <<mn_now, last_trading_date, sent_start_summary,
                   sent_end_summary, sym_i, processed, ran, roVars, exVars,
                   notMain>>

\* one iteration of `while True`, at the time n, up to its sleep or to the
\* loop over the symbols
Iterate(n) ==
    /\ mn_pc \in {"loop", "sleeping"}
    /\ Later(n, mn_now)
    /\ mn_now' = n
    /\ last_trading_date' = n.date
    /\ processed' = <<>>
    /\ ran' = 0
    /\ LET started == last_trading_date = n.date /\ sent_start_summary
           ended   == last_trading_date = n.date /\ sent_end_summary
       IN  IF start_time = BadTime \/ end_time = BadTime
           THEN \* datetime.combine raises TypeError
                /\ mn_pc' = "crashed"
                /\ sent_start_summary' = started
                /\ sent_end_summary' = ended
                /\ sym_i' = 0
           ELSE IF BeforeStart(n, start_time)
           THEN /\ mn_pc' = "sleeping"
                /\ sent_start_summary' = started
                /\ sent_end_summary' = ended
                /\ sym_i' = 0
           ELSE IF AfterEnd(n, end_time)
           THEN /\ mn_pc' = "sleeping"
                /\ sent_start_summary' = started
                /\ sent_end_summary' = (ended \/ in_market_hours(n))
                /\ sym_i' = 0
           ELSE IF ~in_market_hours(n)
           THEN /\ mn_pc' = "sleeping"
                /\ sent_start_summary' = started
                /\ sent_end_summary' = ended
                /\ sym_i' = 0
           ELSE /\ mn_pc' = "symbols"
                /\ sent_start_summary' = TRUE
                /\ sent_end_summary' = ended
                /\ sym_i' = 1
    /\ UNCHANGED <<SYMBOLS, start_time, end_time, roVars, exVars, notMain>>

\* run_once(api, sym) is called for the symbol of the for loop
CallRunOnce ==
    /\ mn_pc = "symbols"
    /\ ro_pc = "idle"
    /\ ro_pc' = "indicators"
    /\ symbol' = SYMBOLS[sym_i]
    /\ ro_price' = Unset
    /\ decision' = <<>>
    /\ ro_failed' = {}
    /\ ran' = ran + 1
    /\ ExecFresh
    /\ UNCHANGED <<mn_pc, SYMBOLS, start_time, end_time, mn_now,
                   last_trading_date, sent_start_summary, sent_end_summary,
                   sym_i, processed, notMain>>

\* indicators = fetch_all_technical_indicators(symbol), or its exception
FetchIndicators(ok) ==
    /\ ro_pc = "indicators"
    /\ IF ok
       THEN ro_pc' = "context" /\ ro_failed' = ro_failed
       ELSE /\ ro_pc' = AfterFailure("indicators", "fallback")
            /\ ro_failed' = ro_failed \cup {"indicators"}
    /\ UNCHANGED <<symbol, ro_price, decision, mnVars, exVars, notMain>>

\* rsi = fetch_rsi(symbol), or its exception and the return
FallbackRsi(ok) ==
    /\ ro_pc = "fallback"
    /\ IF ok
       THEN ro_pc' = "context" /\ ro_failed' = ro_failed
       ELSE /\ ro_pc' = AfterFailure("rsi", "returned")
            /\ ro_failed' = ro_failed \cup {"rsi"}
    /\ UNCHANGED <<symbol, ro_price, decision, mnVars, exVars, notMain>>

\* the price, the positions and the wallet amount: p is the price or None,
\* f the calls among positions and wallet that failed
GatherContext(p, f) ==
    /\ ro_pc = "context"
    /\ ro_price' = p
    /\ ro_failed' = ro_failed \cup f \cup (IF IsNone(p) THEN {"price"} ELSE {})
    /\ ro_pc' = IF \A c \in ro_failed' : Caught(c) THEN "gpt" ELSE "raised"
    /\ UNCHANGED <<symbol, decision, mnVars, exVars, notMain>>

\* ask_gpt_for_decision raises
GptRaises ==
    /\ ro_pc = "gpt"
    /\ ro_failed' = ro_failed \cup {"gpt"}
    /\ ro_pc' = AfterFailure("gpt", "returned")
    /\ UNCHANGED <<symbol, ro_price, decision, mnVars, exVars, notMain>>

\* ask_gpt_for_decision returns (d, a), and the decision is executed: the
\* entry of _execute_buy_order or _execute_sell_order (r is what
\* api.get_position answers), or nothing
Decide(d, a, r) ==
    /\ ro_pc = "gpt"
    /\ decision' = d
    /\ IF Dispatch(d) = "buy"
       THEN BuyEntry(a, ro_price) /\ ro_pc' = "executing"
       ELSE IF Dispatch(d) = "sell"
       THEN SellEntry(a, r) /\ ro_pc' = "executing"
       ELSE UNCHANGED exVars /\ ro_pc' = "returned"
    /\ UNCHANGED <<symbol, ro_price, ro_failed, mnVars, notMain>>

\* _execute_buy_order or _execute_sell_order returns, after its
\* notification (ok tells whether the Discord call worked) or its except
\* block
ExecReturns(ok) ==
    /\ ro_pc = "executing"
    /\ ex_pc \in {"cancelled", "submitted", "failed"}
    /\ ro_failed' = ro_failed
                    \cup (IF ex_pc = "failed" THEN {"order"} ELSE {})
                    \cup (IF ex_pc # "cancelled" /\ ~ok THEN {"discord"} ELSE {})
    /\ ro_pc' = IF \A c \in ro_failed' : Caught(c) THEN "returned" ELSE "raised"
    /\ UNCHANGED <<symbol, ro_price, decision, mnVars, exVars, notMain>>

\* run_once has ended: the next symbol, or the sleep until the next minute;
\* an exception of run_once ends main
RunOnceEnds ==
    /\ mn_pc = "symbols"
    /\ ro_pc \in {"returned", "raised"}
    /\ IF ro_pc = "raised"
       THEN /\ mn_pc' = "crashed"
            /\ UNCHANGED <<sym_i, processed, roVars, exVars>>
       ELSE /\ processed' = Append(processed, [symbol |-> symbol,
                                                failed |-> ro_failed # {}])
            /\ ro_pc' = "idle"
            /\ symbol' = ""
            /\ ro_price' = Unset
            /\ decision' = <<>>
            /\ ro_failed' = {}
            /\ ExecFresh
            /\ IF sym_i < Len(SYMBOLS)
               THEN sym_i' = sym_i + 1 /\ mn_pc' = "symbols"
               ELSE sym_i' = sym_i /\ mn_pc' = "sleeping"
    /\ UNCHANGED <<SYMBOLS, start_time, end_time, mn_now, last_trading_date,
                   sent_start_summary, sent_end_summary, ran, notMain>>

NextMain ==
    \/ \E t \in MainQtyTexts : LoadConfig(t)
    \/ \E syms \in SymbolLists, sched \in Schedules : Main(syms, sched)
    \/ \E d \in MainDates, t \in Times : Iterate([date |-> d, t |-> t])
    \/ CallRunOnce
    \/ \E ok \in BOOLEAN : FetchIndicators(ok)
    \/ \E ok \in BOOLEAN : FallbackRsi(ok)
    \/ \E p \in MainPrices, f \in ContextFailures : GatherContext(p, f)
    \/ GptRaises
    \/ \E d \in Decisions, a \in MainAmounts, r \in MainPositions : Decide(d, a, r)
    \/ \E r \in MainCash : CashCap(r)
    \/ \E r \in MainPower : FundsCheck(r)
    \/ \E ok \in BOOLEAN : Submit(ok)
    \/ \E ok \in BOOLEAN : ExecReturns(ok)
    \/ RunOnceEnds

(***************************************************************************)
(* The specifications: each studies one component from the common initial *)
(* state.                                                                  *)
(***************************************************************************)
Init ==
    /\ InitRSI /\ InitCanBuy /\ InitExec /\ InitGpt /\ InitTaapi /\ InitHours
    /\ InitRetry /\ InitGetRsi /\ InitPrice /\ InitMain

SpecRSI == Init /\ [][NextRSI]_vars

SpecCanBuy == Init /\ [][NextCanBuy]_vars

SpecExec == Init /\ [][NextExec]_vars

SpecGpt == Init /\ [][NextGpt]_vars

SpecTaapi == Init /\ [][NextTaapi]_vars

SpecHours == Init /\ [][NextHours]_vars

SpecRetry == Init /\ [][NextRetry]_vars

SpecGetRsi == Init /\ [][NextGetRsi]_vars

SpecPrice == Init /\ [][NextPrice]_vars

SpecMain == Init /\ [][NextMain]_vars

\* func returns or raises when called, and time.sleep returns
SpecRetryFair == Init /\ [][NextRetry]_vars /\ WF_vars(RetryStep)

(***************************************************************************)
(* Properties of compute_rsi_from_closes, checked under SpecRSI.           *)
(***************************************************************************)
AllNumeric(c) == \A j \in 1..Len(c) : c[j].k \in {"float", "int"}

InRange(r) == r.k = "num" /\ DecCmp(r, Zero) >= 0 /\ DecCmp(r, Hundred) <= 0

\* the order of two prices
PriceCmp(a, b) == DecCmp(ToDecimal(a), ToDecimal(b))

NonDecreasing(c) == \A j \in 1..(Len(c) - 1) : PriceCmp(c[j + 1], c[j]) >= 0

NonIncreasing(c) == \A j \in 1..(Len(c) - 1) : PriceCmp(c[j + 1], c[j]) <= 0

SomeRise(c) == \E j \in 1..(Len(c) - 1) : PriceCmp(c[j + 1], c[j]) > 0

SomeDrop(c) == \E j \in 1..(Len(c) - 1) : PriceCmp(c[j + 1], c[j]) < 0

LastDrop(c) == Len(c) >= 2 /\ PriceCmp(c[Len(c)], c[Len(c) - 1]) < 0

\* The reference Wilder computation, written from its textbook definition in
\* the arithmetic of the calling thread's context.
RefDiff(c, j, prec) == DecSub(ToDecimal(c[j + 1]), ToDecimal(c[j]), prec)

\* max(diff, 0)
RefGain(c, j, prec) ==
    IF DecCmp(RefDiff(c, j, prec), Zero) > 0 THEN RefDiff(c, j, prec) ELSE Zero

\* max(-diff, 0)
RefLoss(c, j, prec) ==
    IF DecCmp(DecNeg(RefDiff(c, j, prec)), Zero) > 0
    THEN DecNeg(RefDiff(c, j, prec)) ELSE Zero

RefGains(c, prec) == [j \in 1..(Len(c) - 1) |-> RefGain(c, j, prec)]

RefLosses(c, prec) == [j \in 1..(Len(c) - 1) |-> RefLoss(c, j, prec)]

\* x[1] + ... + x[m]
RECURSIVE RefSum(_, _, _)
RefSum(x, m, prec) ==
    IF m = 0 THEN Zero ELSE DecAdd(RefSum(x, m - 1, prec), x[m], prec)

\* the average after the first m entries of x, m >= p: the mean of the first
\* p entries, then one smoothing step for each of the entries p + 1 .. m
RECURSIVE RefAvg(_, _, _, _)
RefAvg(x, p, m, prec) ==
    IF m = p
    THEN DecDiv(RefSum(x, p, prec), Dec(p, 0), prec)
    ELSE DecDiv(DecAdd(DecMul(RefAvg(x, p, m - 1, prec), Dec(p - 1, 0), prec),
                       x[m], prec),
                Dec(p, 0), prec)

WilderRSI(c, p, prec) ==
    LET ag == RefAvg(RefGains(c, prec), p, Len(c) - 1, prec)
        al == RefAvg(RefLosses(c, prec), p, Len(c) - 1, prec)
    IN  IF IsZero(al) THEN Hundred
        ELSE DecSub(Hundred,
                    DecDiv(Hundred, DecAdd(One, DecDiv(ag, al, prec), prec), prec),
                    prec)

\* C1: every call with at least period + 1 numeric closes returns, and every
\* returned value r satisfies 0 <= r <= 100.
C1_RangeInvariant ==
    /\ (Done /\ AllNumeric(closes) /\ Len(closes) >= period + 1) => pc = "returned"
    /\ pc = "returned" => InRange(rsi)

\* a call that went through smoothing and returned a value strictly inside
\* the range
C1_Witness ==
    /\ pc = "returned"
    /\ nsmooth >= 1
    /\ DecCmp(rsi, Zero) > 0
    /\ DecCmp(rsi, Hundred) < 0

\* C2: the call raises ValueError exactly when len(closes) < period + 1; on
\* that path no name of the body is bound (nothing is converted, truncated,
\* padded or computed); with len(closes) = period + 1 numeric closes it
\* returns.
C2_InsufficientData ==
    pc # "idle" =>
        /\ (err = "ValueError") <=> (Len(closes) < period + 1)
        /\ err = "ValueError" =>
              /\ pc = "raised"
              /\ closes_d = <<>> /\ gains = <<>> /\ losses = <<>>
              /\ avg_gain = Unset /\ avg_loss = Unset
              /\ rs = Unset /\ rsi = Unset /\ nsmooth = 0
        /\ (Done /\ AllNumeric(closes) /\ Len(closes) = period + 1) => pc = "returned"

\* the boundary: exactly `period` closes, and the call has raised
C2_Witness ==
    /\ pc = "raised"
    /\ err = "ValueError"
    /\ Len(closes) = period
    /\ AllNumeric(closes)

\* C3: a returned value is the value of the reference Wilder computation: the
\* gains and losses are max(diff, 0) and max(-diff, 0), never both nonzero;
\* the averages are the seeded means smoothed once per remaining difference,
\* in order; exactly len(closes) - 1 - period smoothing steps were made.
C3_WilderReference ==
    pc = "returned" =>
        /\ gains = RefGains(closes, CtxPrec)
        /\ losses = RefLosses(closes, CtxPrec)
        /\ \A j \in 1..Len(gains) : IsZero(gains[j]) \/ IsZero(losses[j])
        /\ nsmooth = Len(closes) - 1 - period
        /\ avg_gain = RefAvg(RefGains(closes, CtxPrec), period, Len(closes) - 1, CtxPrec)
        /\ avg_loss = RefAvg(RefLosses(closes, CtxPrec), period, Len(closes) - 1, CtxPrec)
        /\ rsi = WilderRSI(closes, period, CtxPrec)

\* a call with period >= 2 that went through smoothing, gains and losses
C3_Witness ==
    /\ pc = "returned"
    /\ period >= 2
    /\ nsmooth >= 1
    /\ ~IsZero(avg_gain)
    /\ ~IsZero(avg_loss)

\* C4: on a non-decreasing series (a flat one included) the final avg_loss is
\* 0 and the call returns exactly 100, rs never being computed.
C4_ZeroLoss ==
    (pc = "returned" /\ NonDecreasing(closes)) =>
        /\ IsZero(avg_loss)
        /\ rsi = Hundred
        /\ rs = Unset

\* a rising series that went through smoothing
C4_Witness ==
    /\ pc = "returned"
    /\ NonDecreasing(closes)
    /\ SomeRise(closes)
    /\ nsmooth >= 1
    /\ rsi = Hundred

\* the largest rs for which 1 + rs rounds to 1 in a context of precision prec
RoundsToOne(prec) == Norm(0, <<5>>, 0 - prec)

\* C5 as stated: on a non-increasing series with a real drop avg_gain is 0,
\* avg_loss > 0 and the result is 0; and a result of exactly 0 needs
\* avg_gain = 0.
C5_AsStated ==
    pc = "returned" =>
        /\ (NonIncreasing(closes) /\ SomeDrop(closes)) =>
              /\ IsZero(avg_gain)
              /\ DecCmp(avg_loss, Zero) > 0
              /\ rsi = Zero
        /\ rsi = Zero => IsZero(avg_gain)

\* C5, amended: on a non-increasing series with a real drop avg_gain is 0; if
\* period >= 2 or the last difference is a drop, avg_loss > 0 and the result
\* is 0; with period 1 and a flat last difference avg_loss is 0 and the
\* result is 100.  The result is exactly 0 exactly when avg_loss > 0 and
\* rs = avg_gain / avg_loss is at most 5 * 10^-prec, that is when avg_gain is
\* 0 or so small that 1 + rs rounds to 1.
C5_ZeroGain ==
    pc = "returned" =>
        /\ (NonIncreasing(closes) /\ SomeDrop(closes)) =>
              /\ IsZero(avg_gain)
              /\ (period >= 2 \/ LastDrop(closes)) =>
                    DecCmp(avg_loss, Zero) > 0 /\ rsi = Zero
              /\ (period = 1 /\ ~LastDrop(closes)) =>
                    IsZero(avg_loss) /\ rsi = Hundred
        /\ rsi = Zero <=>
              /\ ~IsZero(avg_loss)
              /\ rs.k = "num"
              /\ DecCmp(rs, RoundsToOne(CtxPrec)) <= 0
        /\ IsZero(avg_gain) /\ ~IsZero(avg_loss) => rsi = Zero

\* a result of exactly 0 although avg_gain is not 0
C5_Witness ==
    /\ pc = "returned"
    /\ rsi = Zero
    /\ ~IsZero(avg_gain)
    /\ DecCmp(avg_gain, Zero) > 0

\* the current call is the remembered call with one more, strictly higher,
\* price, both made in the same thread, and the remembered call returned
AppendedUp ==
    /\ prev.has
    /\ prev.pc = "returned"
    /\ period = prev.period
    /\ caller = prev.caller
    /\ Len(closes) = Len(prev.closes) + 1
    /\ SubSeq(closes, 1, Len(closes) - 1) = prev.closes
    /\ AllNumeric(closes)
    /\ PriceCmp(closes[Len(closes)], closes[Len(closes) - 1]) > 0

\* C6 as stated: appending a strictly higher price never lowers the result.
C6_AsStated ==
    (pc = "returned" /\ AppendedUp) => DecCmp(rsi, prev.rsi) >= 0

\* 10^-8
Tolerance == Norm(0, <<1>>, 0 - 8)

\* C6, amended: appending a strictly higher price never lowers the result by
\* more than 10^-8 (the rounding of the context's arithmetic can lower it in
\* its last digits).
C6_Monotonic ==
    (pc = "returned" /\ AppendedUp) =>
        DecCmp(DecAdd(rsi, Tolerance, DefaultContext.prec), prev.rsi) >= 0

\* an appended higher price, and a lower result
C6_Witness ==
    /\ pc = "returned"
    /\ AppendedUp
    /\ DecCmp(rsi, prev.rsi) < 0

\* C7: a call with the closes and period of the remembered call ends as the
\* remembered call did, with the same value, whichever thread makes it.
C7_Determinism ==
    (Done /\ prev.has /\ closes = prev.closes /\ period = prev.period) =>
        /\ pc = prev.pc
        /\ err = prev.err
        /\ rsi = prev.rsi

\* C8: on the sample closes with period 14 the result lies in [70, 71].
C8_KnownValue ==
    (pc = "returned" /\ closes = sample_closes /\ period = DefaultPeriod) =>
        /\ DecCmp(rsi, Dec(70, 0)) >= 0
        /\ DecCmp(rsi, Dec(71, 0)) <= 0

\* the script's run on the sample: 70.4641350211
C8_Witness ==
    /\ pc = "returned"
    /\ closes = sample_closes
    /\ period = DefaultPeriod
    /\ caller = "main"
    /\ rsi = Norm(0, <<7, 0, 4, 6, 4, 1, 3, 5, 0, 2, 1, 1>>, 0 - 10)

\* C9: a call that returns had only numbers and at least period + 1 of them,
\* used every one of them, and returns a value in [0, 100]; a call with an
\* entry that is no number, or with too few entries, raises and binds no
\* result.
C9_NothingInBetween ==
    /\ pc = "returned" =>
          /\ AllNumeric(closes)
          /\ Len(closes) >= period + 1
          /\ closes_d = [j \in 1..Len(closes) |-> ToDecimal(closes[j])]
          /\ Len(gains) = Len(closes) - 1
          /\ Len(losses) = Len(closes) - 1
          /\ nsmooth = Len(closes) - 1 - period
          /\ InRange(rsi)
    /\ (Done /\ (~AllNumeric(closes) \/ Len(closes) < period + 1)) => pc = "raised"
    /\ pc = "raised" => err # "none" /\ rsi = Unset

\* enough entries, one of them None: the call has raised
C9_Witness ==
    /\ pc = "raised"
    /\ err = "InvalidOperation"
    /\ Len(closes) >= period + 1
    /\ \E j \in 1..Len(closes) : closes[j] = NoneEntry

(***************************************************************************)
(* Properties of can_buy, checked under SpecCanBuy.                        *)
(***************************************************************************)
RECURSIVE TenTo(_)
TenTo(n) == IF n = 0 THEN 1 ELSE 10 * TenTo(n - 1)

\* the number d * 10^k as an integer (d >= 0 with at most k decimals)
Scaled(d, k) == ToInt(d.c) * TenTo(d.e + k)

Fetched == resp.k \in {"float", "int"}

ExactMul(a, b) == DecMul(a, b, 200)

\* C11: place_order is never called with a quantity <= 0, whatever the GPT
\* amount, the configured QTY, the price and the cash balance.
C11_NoNonPositiveOrder ==
    placed # NoOrder => DecCmp(placed.val, Zero) > 0

\* a BUY order was handed to place_order while the price was known and the
\* cash balance had been read
CappedBuy ==
    /\ placed # NoOrder
    /\ side = "buy"
    /\ ~IsNone(last_price)
    /\ current_cash.k = "num"

\* the quantity the call started from: the GPT amount, else QTY
Requested == IF IsNone(amount) THEN QTY ELSE amount

\* C12 as stated: the submitted quantity q satisfies
\* q * price <= cash * 0.98, and an amount above cash * 0.98 / price is
\* reduced to it.
C12_AsStated ==
    CappedBuy =>
        /\ DecCmp(ExactMul(placed.val, last_price),
                  ExactMul(current_cash, Dec(98, -2))) <= 0
        /\ DecCmp(Requested, max_affordable_shares) > 0 =>
              qty_numeric = max_affordable_shares

\* 1 + 10^-15
RoundingSlack == DecAdd(One, Norm(0, <<1>>, 0 - 15), DefaultContext.prec)

\* C12, amended: usable_cash is cash * 0.98; the submitted quantity q is the
\* requested quantity, or cash * 0.98 / price as the 28-digit division
\* rounds it when the request is above that, converted to int or to float;
\* with these two roundings q * price <= cash * 0.98 * (1 + 10^-15).
C12_CashCap ==
    CappedBuy =>
        LET cap == DecDiv(UsableCash(current_cash), last_price, DefaultContext.prec)
        IN  /\ usable_cash = ExactMul(current_cash, Dec(98, -2))
            /\ max_affordable_shares = cap
            /\ qty_numeric = IF DecCmp(Requested, cap) > 0 THEN cap ELSE Requested
            /\ placed = [side |-> "buy"] @@ QtyForOrder(qty_numeric)
            /\ DecCmp(ExactMul(placed.val, last_price),
                      ExactMul(usable_cash, RoundingSlack)) <= 0

\* an amount above the cap was reduced, and the float handed to place_order
\* costs more than cash * 0.98
C12_Witness ==
    /\ CappedBuy
    /\ DecCmp(amount, max_affordable_shares) > 0
    /\ placed.kind = "float"
    /\ DecCmp(ExactMul(placed.val, last_price), usable_cash) > 0

(***************************************************************************)
(* Properties of ask_gpt_for_decision, checked under SpecGpt.              *)
(***************************************************************************)
\* the first whitespace-separated token of t, <<>> when there is none
FirstToken(t) ==
    LET used == {j \in 1..Len(t) : t[j] # " "}
    IN  IF used = {} THEN <<>>
        ELSE LET a     == CHOOSE j \in used : \A l \in used : j <= l
                 stops == {j \in a..Len(t) : t[j] = " "}
                 b     == IF stops = {} THEN Len(t)
                          ELSE (CHOOSE j \in stops : \A l \in stops : j <= l) - 1
             IN  SubSeq(t, a, b)

\* tok is the word w in capitals or small letters
IsWord(tok, w) ==
    /\ Len(tok) = Len(w)
    /\ \A j \in 1..Len(w) :
          \/ tok[j] = w[j]
          \/ \E l \in 1..Len(UpperChars) : UpperChars[l] = w[j] /\ LowerChars[l] = tok[j]

NamesAction(tok) == IsWord(tok, BUY) \/ IsWord(tok, SELL) \/ IsWord(tok, NOTHING)

\* C13: every returned action is BUY, SELL or NOTHING; an empty reply, or a
\* reply whose first token is none of the three words (in any case), gives
\* (NOTHING, None); with NOTHING the amount is None.
C13_ActionSet ==
    gpt_pc = "returned" =>
        /\ action \in {BUY, SELL, NOTHING}
        /\ ~NamesAction(FirstToken(text)) =>
              action = NOTHING /\ gpt_amount = NoneEntry
        /\ action = NOTHING => gpt_amount = NoneEntry

\* the reply "HOLD $50"
C13_Witness ==
    /\ gpt_pc = "returned"
    /\ text = <<"H", "O", "L", "D", " ", "$", "5", "0">>
    /\ action = NOTHING
    /\ gpt_amount = NoneEntry

\* the text without its commas
WithoutCommas(s) == SelectSeq(s, LAMBDA ch : ch # ",")

\* C14: for a BUY or SELL reply whose second token is '$D', D a number with
\* or without commas, the amount is D / stock_price when stock_price > 0
\* and None when stock_price <= 0; when the second token is a number N, with
\* or without commas, the amount is N.
C14_Amounts ==
    (gpt_pc = "returned" /\ action \in {BUY, SELL} /\ Len(Split(text)) >= 2) =>
        LET tok     == Split(text)[2]
            dollars == tok[1] = "$"
            num     == DecimalOf(WithoutCommas(IF dollars THEN Tail(tok) ELSE tok))
        IN  num.ok =>
              /\ (dollars /\ DecCmp(stock_price, Zero) > 0) =>
                    gpt_amount = DecDiv(num.val, stock_price, DefaultContext.prec)
              /\ (dollars /\ DecCmp(stock_price, Zero) <= 0) =>
                    gpt_amount = NoneEntry
              /\ ~dollars => gpt_amount = num.val

\* "BUY $50,000" at a price of 3: 16666.66666666666666666666667 shares
C14_Witness ==
    /\ gpt_pc = "returned"
    /\ text = BUY \o <<" ", "$", "5", "0", ",", "0", "0", "0">>
    /\ stock_price = Dec(3, 0)
    /\ gpt_amount = DecDiv(Dec(50000, 0), Dec(3, 0), DefaultContext.prec)
    /\ gpt_amount.k = "num"

(***************************************************************************)
(* Properties of fetch_all_indicators, checked under SpecTaapi.            *)
(***************************************************************************)
\* the ENABLE_ texts that switch an indicator on
SwitchedOn(flag) == flag \in {"true", "On"}

\* the keys of the blocks passed so far
KeysDone == {IndicatorKeys[j] : j \in 1..(ta_next - 1)}

\* C15: the returned dict has all ten keys; a disabled indicator is never
\* fetched and is None; a fetch that returns None or raises leaves its key
\* None; each block runs whatever the blocks before it did, so every
\* enabled indicator is fetched.
C15_AllKeys ==
    /\ ta_pc = "returned" =>
          /\ DOMAIN indicators = {IndicatorKeys[j] : j \in 1..10}
          /\ ta_next = 11
    /\ ta_pc \in {"fetching", "returned"} =>
          /\ DOMAIN indicators = KeysDone
          /\ fetched \subseteq KeysDone
          /\ \A key \in KeysDone :
                key \notin fetched => indicators[key] = "None"
          /\ Len(failed_indicators) + Len(disabled_indicators) <= ta_next - 1
          /\ ta_next > 1 =>
                LET key == IndicatorKeys[ta_next - 1]
                IN  /\ SwitchedOn(last_flag) <=> key \in fetched
                    /\ ~SwitchedOn(last_flag) => indicators[key] = "None"
                    /\ last_outcome \in {"None", "raises"} => indicators[key] = "None"
                    /\ last_outcome = "value" => indicators[key] = "value"

\* returned after a failed fetch in the first block, a disabled second block and a
\* value in the last
C15_Witness ==
    /\ ta_pc = "returned"
    /\ "rsi" \in fetched
    /\ indicators["rsi"] = "None"
    /\ "ma" \notin fetched
    /\ "dmi" \in fetched
    /\ indicators["dmi"] = "value"
    /\ last_outcome = "value"
    /\ Len(failed_indicators) >= 1

(***************************************************************************)
(* Properties of in_market_hours, checked under SpecHours.                 *)
(***************************************************************************)
\* C16: in_market_hours(now) is True exactly when now falls on a trading
\* day (Monday to Friday, no market holiday) and lies between 9:30 and the
\* close of that day (16:00, or 13:00 on an early-close day), bounds
\* included.
C16_MarketOpen ==
    now # NoTime =>
        (market_open <=>
            /\ is_trading_day(now.date)
            /\ dtime(9, 30) <= now.t
            /\ now.t <= (IF is_early_close(now.date) THEN dtime(13, 0) ELSE dtime(16, 0)))

(***************************************************************************)
(* Properties of _retry_alpaca_call, checked under SpecRetry, and with the *)
(* termination of func and of time.sleep under SpecRetryFair.              *)
(***************************************************************************)
RetryRunning == rt_pc \in {"calling", "sleeping"}

RetryEnded == rt_pc \in {"returned", "raised"}

\* with max_retries >= 1: at most max_retries calls; a return hands over the
\* value of the call just made, the only one that succeeded; a raise
\* hands over the exception of the call just made, every call having failed
BoundedCalls ==
    (rt_pc # "idle" /\ max_retries >= 1) =>
        /\ calls <= max_retries
        /\ rt_pc = "returned" =>
              /\ calls >= 1
              /\ func_value.call = calls
              /\ rt_result = func_value.val
        /\ rt_pc # "returned" => func_value = NoValue
        /\ rt_pc = "raised" =>
              /\ calls >= 1
              /\ raised = last_exc
              /\ raised.call = calls

\* C17: for max_retries = n >= 1 the wrapper calls func at most n times,
\* returns the result of the first successful call without a further call,
\* re-raises the exception of the last call made when every call failed,
\* and always terminates.
C17_Terminates == []BoundedCalls /\ (RetryRunning ~> RetryEnded)

\* three retryable failures with max_retries = 3: raised after the third
C17_Witness ==
    /\ rt_pc = "raised"
    /\ max_retries = 3
    /\ calls = 3
    /\ sleeps = 2
    /\ raised.call = 3

\* a failure is retryable, in the words of C19
Retryable(e) ==
    IF e.response.present
    THEN e.response.status_code \in 500..599
    ELSE \/ Contains(e.msg, SERVER_ERROR)
         \/ Contains(e.msg, M500) \/ Contains(e.msg, M502)
         \/ Contains(e.msg, M503) \/ Contains(e.msg, M504)
         \/ Contains(LowerCase(e.msg), KW_CONNECTION)
         \/ Contains(LowerCase(e.msg), TIMEOUT)
         \/ Contains(LowerCase(e.msg), KW_NETWORK)
         \/ Contains(LowerCase(e.msg), KW_UNREACHABLE)

\* the call just made failed
LastCallFailed == calls >= 1 /\ last_exc.call = calls

\* C19: a sleep and a further call follow a failed call only if the failure
\* is retryable (a response with status 500..599, or no response and a
\* message with 'Server Error', '500', '502', '503', '504' or, in any case,
\* connection, timeout, network or unreachable); any other failure is
\* re-raised after that call, with no sleep and no further call.
C19_RetryOnlyRetryable ==
    /\ rt_pc = "sleeping" => LastCallFailed /\ Retryable(last_exc)
    /\ (rt_pc = "calling" /\ calls >= 1) =>
          /\ Retryable(last_exc)
          /\ sleeps = calls
    /\ (LastCallFailed /\ ~Retryable(last_exc)) =>
          /\ rt_pc = "raised"
          /\ raised = last_exc
          /\ sleeps = calls - 1

\* a response with status 404 and the message "Server Error": raised after
\* the first of three attempts
C19_Witness ==
    /\ rt_pc = "raised"
    /\ max_retries = 3
    /\ calls = 1
    /\ sleeps = 0
    /\ raised.response = Response(404)
    /\ raised.msg = SERVER_ERROR

\* C20: for every max_retries, 0 included, the wrapper returns normally
\* only after func was called and returned, and returns func's value.
C20_ReturnsFuncValue ==
    rt_pc = "returned" =>
        /\ calls >= 1
        /\ func_value.call = calls
        /\ rt_result = func_value.val

(***************************************************************************)
(* Properties of get_rsi_from_alpaca, checked under SpecGetRsi.            *)
(***************************************************************************)
\* C18: get_rsi_from_alpaca returns compute_rsi_from_closes applied to all
\* the closes the fetch returned: the computation runs on the fetched list,
\* makes one smoothing step for every difference beyond the first `period`,
\* and its value is the Wilder RSI of the fetched list.
C18_FullWindow ==
    gr_pc = "returned" =>
        /\ closes = fetched_closes
        /\ nsmooth = Len(fetched_closes) - 1 - period
        /\ gr_rsi = WilderRSI(fetched_closes, period, CtxPrec)

(***************************************************************************)
(* Further properties of _execute_buy_order and _execute_sell_order,       *)
(* checked under SpecExec.                                                 *)
(***************************************************************************)
\* the buy reaches the statements that lead to place_order
ReachesPlaceOrder == side' = "buy" /\ ex_pc' = "submit" /\ ex_pc # "submit"

\* the step is the buying power check, passed for the quantity that will be
\* submitted and with an order value of at least 1.00
PassedFundsCheck ==
    /\ ex_pc = "funds"
    /\ qty_numeric' = qty_numeric
    /\ order_value' = ExactMul(last_price, qty_numeric')
    /\ DecCmp(order_value', min_order_value) >= 0
    /\ \E r \in PowerResponses : can_buy(r, last_price, qty_numeric')

\* C21: every execution of _execute_buy_order that reaches place_order
\* does so from the buying power check: can_buy was called with the quantity
\* that is submitted and returned True, and price * qty was at least 1.00.
C21_CheckedBuy == [][ReachesPlaceOrder => PassedFundsCheck]_vars

\* the position quantity, as a number of the kind the order carries
AsOrdered(q) == QtyForOrder(q).val

Queried(m) == m < lp_method \/ (m = lp_method /\ calls >= 1)

\* C25: the methods are tried in the order latest_quote, latest_bar,
\* snapshot: a method is queried only after every earlier one has failed;
\* the function returns the price of the method that was queried last, which
\* succeeded, the later methods never being queried; and it raises
\* RuntimeError exactly when all three have failed.
C25_SourceOrder ==
    lp_pc # "idle" =>
        /\ \A m \in 1..Len(Methods) :
              Queried(m) => \A j \in 1..(m - 1) : Methods[j] \in lp_failed
        /\ lp_pc = "returned" =>
              /\ Queried(lp_method)
              /\ func_value.call = calls
              /\ lp_price = func_value.val
              /\ lp_price = "price"
              /\ Methods[lp_method] \notin lp_failed
        /\ lp_pc = "raised" <=> lp_failed = {Methods[m] : m \in 1..Len(Methods)}

(***************************************************************************)
(* Properties of run_once and of the loop of main, checked under SpecMain. *)
(***************************************************************************)
\* what an activation of run_once has handed to place_order so far
NoOrderWhen ==
    ro_pc # "idle" =>
        /\ {"indicators", "rsi"} \subseteq ro_failed => placed = NoOrder
        /\ "gpt" \in ro_failed => placed = NoOrder
        /\ decision = NOTHING => placed = NoOrder
        /\ placed # NoOrder =>
              \/ decision = BUY /\ placed.side = "buy"
              \/ decision = SELL /\ placed.side = "sell"

\* place_order is called in a step of a running activation that has called
\* it not yet, and the activation keeps its symbol
OrderOnce ==
    /\ (placed' # placed /\ placed' # NoOrder) =>
          /\ placed = NoOrder
          /\ ro_pc = "executing"
          /\ ro_pc' = "executing"
    /\ (ro_pc # "idle" /\ ro_pc' # "idle") =>
          /\ symbol' = symbol
          /\ symbol = SYMBOLS[sym_i]

\* C23: one call of run_once calls place_order at most once, and not at all
\* when the indicator fetch and the RSI fallback both failed, when the GPT
\* call raised, or when the decision is NOTHING; a BUY decision leads only to
\* a buy order and a SELL decision only to a sell order, for the symbol of
\* the call.
C23_OneOrder == []NoOrderWhen /\ [][OrderOnce]_vars

\* a SELL decision, and the sell order submitted
C23_Witness ==
    /\ ro_pc = "returned"
    /\ decision = SELL
    /\ placed.side = "sell"
    /\ ex_pc = "submitted"

\* the symbols for which run_once has returned in this iteration
ProcessedSymbols == [j \in 1..Len(processed) |-> processed[j].symbol]

\* C24: no exception leaves run_once, whichever of its calls fail; so in an
\* iteration of main that reaches the loop over SYMBOLS, run_once is called
\* for every symbol, in the order of the list, also after a symbol whose
\* processing failed.
C24_NoEscape ==
    /\ ro_pc # "raised"
    /\ mn_pc = "crashed" => ran = 0
    /\ mn_pc = "symbols" =>
          /\ Len(processed) = sym_i - 1
          /\ ProcessedSymbols = SubSeq(SYMBOLS, 1, sym_i - 1)
          /\ ran = IF ro_pc = "idle" THEN sym_i - 1 ELSE sym_i
    /\ (mn_pc = "sleeping" /\ ran > 0) =>
          /\ ProcessedSymbols = SYMBOLS
          /\ ran = Len(SYMBOLS)

\* the processing of the first symbol failed, and the second was processed
C24_Witness ==
    /\ mn_pc = "sleeping"
    /\ Len(processed) = 2
    /\ processed[1].failed
    /\ processed[2].symbol = "MSFT"

\* today_start <= now <= today_end
InWindow(n) == start_time <= n.t /\ n.t <= end_time

\* C26: run_once is called only in an iteration whose timestamp lies in the
\* schedule window and in the market hours; in any other iteration the loop
\* sleeps without a call of run_once or of an order function.
C26_OnlyInWindow ==
    /\ (ro_pc # "idle" \/ ran > 0 \/ mn_pc = "symbols") =>
          InWindow(mn_now) /\ in_market_hours(mn_now)
    /\ (mn_pc = "sleeping" /\ ~(InWindow(mn_now) /\ in_market_hours(mn_now))) =>
          /\ ran = 0
          /\ ro_pc = "idle"
          /\ ex_pc = "ready"
          /\ placed = NoOrder

\* 16:00:01 with a schedule of 8:00 to 17:00, after the start of the day:
\* inside the window, the market closed, and the loop sleeps
C26_Witness ==
    /\ mn_pc = "sleeping"
    /\ ran = 0
    /\ sent_start_summary
    /\ InWindow(mn_now)
    /\ ~in_market_hours(mn_now)

=============================================================================
